---------------------------- MODULE Spec2Model ----------------------------
(***************************************************************************)
(* A model of the function invocation marshaling layer of the IREE Python  *)
(* runtime bindings (bindings/python/iree/runtime/function.py): the        *)
(* FunctionInvoker binding built from reflection metadata, and one call of *)
(* it: keyword merge, argument encoding, VM invoke, result decoding and    *)
(* return arity reconciliation.                                            *)
(*                                                                         *)
(* Python values, JSON values (the ABI descriptors) and VM variant slots   *)
(* are records tagged by kind; a Python evaluation that may raise is an    *)
(* operator returning a record whose field exc is "none" or the name of    *)
(* the exception class raised.                                             *)
(***************************************************************************)
EXTENDS Integers, Sequences, FiniteSets, TLC

(***************************************************************************)
(* Bounds of the model.                                                    *)
(***************************************************************************)
\* The largest number of positional arguments of a call.
MaxArgs == 2
\* The largest number of keyword arguments of a call.
MaxKwargs == 2

(***************************************************************************)
(* JSON values: what json.loads returns for the "iree.abi" text.           *)
(***************************************************************************)
JS(s) == [k |-> "str", s |-> s]
JN(n) == [k |-> "num", n |-> n]
JNull == [k |-> "null"]
JL(e) == [k |-> "list", e |-> e]
JO(keys, vals) == [k |-> "obj", keys |-> keys, vals |-> vals]

\* Python truthiness of a JSON value (None, "", 0, [] and {} are falsy).
Truthy(j) ==
  CASE j.k = "null" -> FALSE
    [] j.k = "str" -> j.s # ""
    [] j.k = "num" -> j.n # 0
    [] j.k = "list" -> Len(j.e) > 0
    [] j.k = "obj" -> Len(j.keys) > 0

\* The first character of the strings the model uses (Python's s[0]).
FirstChar(s) ==
  CASE s \in {"i8", "i16", "i32", "i64", "i1"} -> "i"
    [] s \in {"f16", "f32", "f64"} -> "f"
    [] s = "bf16" -> "b"
    [] s \in {"ndarray", "named"} -> "n"
    [] s \in {"slist", "stuple", "sdict"} -> "s"
    [] s = "py_homogeneous_list" -> "p"
    [] OTHER -> "?"

Ok(v) == [exc |-> "none", val |-> v]
Raise(e) == [exc |-> e]

\* K applied to the value v, evaluated once (a local variable of the code):
\* x is bound to the value of v, not to the expression.
With(v, K(_)) == CHOOSE y \in {K(x) : x \in {v}} : TRUE

\* Python's j[0] on a JSON value.
Index0(j) ==
  CASE j.k = "str" -> IF j.s = "" THEN Raise("IndexError") ELSE Ok(JS(FirstChar(j.s)))
    [] j.k = "list" -> IF Len(j.e) = 0 THEN Raise("IndexError") ELSE Ok(j.e[1])
    [] j.k = "obj" -> Raise("KeyError")
    [] OTHER -> Raise("TypeError")

\* Python's j[i] for an integer i >= 0 on a JSON list (0-based, as in Python).
IndexN(j, i) ==
  CASE j.k = "list" -> IF i + 1 > Len(j.e) THEN Raise("IndexError") ELSE Ok(j.e[i + 1])
    [] j.k = "obj" -> Raise("KeyError")
    [] OTHER -> Raise("TypeError")

\* Python's j[n:] on a JSON list: the elements after the first n.
Slice(j, n) == IF Len(j.e) <= n THEN <<>> ELSE SubSeq(j.e, n + 1, Len(j.e))

\* Python's j[key] for a string key: only a dict can be subscripted by str.
\* The last occurrence of a repeated key wins, as in json.loads.
Subscript(j, key) ==
  IF j.k = "obj"
  THEN LET hits == {i \in 1..Len(j.keys) : j.keys[i] = key} IN
       IF hits = {} THEN Raise("KeyError")
       ELSE Ok(j.vals[CHOOSE i \in hits : \A h \in hits : h <= i])
  ELSE Raise("TypeError")

\* `j and j[0] == tag`: the test of lines 181, 192, 449 for tag in tags.
\* Raises what j[0] raises when j is truthy.
HeadIn(j, tags) ==
  IF ~Truthy(j) THEN Ok(FALSE)
  ELSE LET h == Index0(j) IN
       IF h.exc # "none" THEN h
       ELSE Ok(h.val.k = "str" /\ h.val.s \in tags)

(***************************************************************************)
(* The reflection metadata a function may carry.  The text of "iree.abi"   *)
(* is modelled by what json.loads makes of it: a syntax error, or a value. *)
(***************************************************************************)
NoAbi == [present |-> FALSE]
BadJson == [present |-> TRUE, syntax_ok |-> FALSE]
Abi(j) == [present |-> TRUE, syntax_ok |-> TRUE, value |-> j]
AbiAR(a, r) == Abi(JO(<<"a", "r">>, <<a, r>>))

Named(name, d) == JL(<<JS("named"), JS(name), d>>)
NdArray0(dt) == JL(<<JS("ndarray"), JS(dt), JN(0)>>)
SList(ds) == JL(<<JS("slist")>> \o ds)
STuple(ds) == JL(<<JS("stuple")>> \o ds)

Reflections ==
  { NoAbi,
    BadJson,
    Abi(JL(<<>>)),
    Abi(JN(5)),
    Abi(JO(<<"a">>, <<JL(<<>>)>>)),
    Abi(JO(<<"r">>, <<JL(<<>>)>>)),
    AbiAR(JS("i32"), JL(<<>>)),
    AbiAR(JL(<<>>), JNull),
    \* a: (x: i32, y: 0-d f32 array) -> i32
    AbiAR(JL(<<Named("x", JS("i32")), Named("y", NdArray0("f32"))>>),
          JL(<<JS("i32")>>)),
    \* a: (i32, i32) -> inlined slist of two i32
    AbiAR(JL(<<JS("i32"), JS("i32")>>),
          JL(<<SList(<<JS("i32"), JS("i32")>>)>>)),
    \* a: (slist(i32, f32)) -> (i32, f32)
    AbiAR(JL(<<SList(<<JS("i32"), JS("f32")>>)>>),
          JL(<<JS("i32"), JS("f32")>>)),
    \* a: () -> ()
    AbiAR(JL(<<>>), JL(<<>>)),
    \* malformed nested descriptors
    AbiAR(JL(<<Named("x", JN(5))>>), JL(<<JL(<<>>)>>)),
    AbiAR(JL(<<JS("i32")>>), JL(<<JS("i32"), JN(5)>>)),
    \* a: (x: i32) -> stuple(i32, f32), inlined
    AbiAR(JL(<<Named("x", JS("i32"))>>),
          JL(<<STuple(<<JS("i32"), JS("f32")>>)>>)),
    \* a: (i32, y: f32, z: i32) -> i32
    AbiAR(JL(<<JS("i32"), Named("y", JS("f32")), Named("z", JS("i32"))>>),
          JL(<<JS("i32")>>))
  }


(***************************************************************************)
(* FunctionInvoker._parse_abi_dict.                                        *)
(***************************************************************************)
\* d[name] = i on a Python dict kept as a sequence of entries in insertion
\* order: an existing key keeps its place and takes the new value.
DictSet(d, name, i) ==
  IF \E n \in 1..Len(d) : d[n].name = name
  THEN [n \in 1..Len(d) |-> IF d[n].name = name THEN [name |-> name, idx |-> i] ELSE d[n]]
  ELSE Append(d, [name |-> name, idx |-> i])

\* A JSON value that Python cannot hash (a dict key must be hashable).
Unhashable(j) == j.k \in {"list", "obj"}

\* named_loop without the tracking of the largest named position.
RECURSIVE named_loop_no_max(_, _, _, _)
named_loop_no_max(descs, i, idx, mx) ==
  IF i > Len(descs)
  THEN [exc |-> "none", descs |-> descs, idx |-> idx, mx |-> mx]
  ELSE LET d == descs[i]
           isNamed == HeadIn(d, {"named"})
           tail == Slice(d, 1)
       IN  IF isNamed.exc # "none"
           THEN [exc |-> isNamed.exc, descs |-> descs, idx |-> idx, mx |-> mx]
           ELSE IF ~isNamed.val THEN named_loop_no_max(descs, i + 1, idx, mx)
           ELSE IF Len(tail) # 2
           THEN [exc |-> "ValueError", descs |-> descs, idx |-> idx, mx |-> mx]
           ELSE IF Unhashable(tail[1])
           THEN [exc |-> "TypeError", descs |-> [descs EXCEPT ![i] = tail[2]],
                 idx |-> idx, mx |-> mx]
           ELSE named_loop_no_max([descs EXCEPT ![i] = tail[2]], i + 1,
                                  DictSet(idx, tail[1], i - 1), mx)

\* The loop of lines 179-186 from position i (1-based here, i-1 in Python).
RECURSIVE named_loop(_, _, _, _)
named_loop(descs, i, idx, mx) ==
  IF i > Len(descs)
  THEN [exc |-> "none", descs |-> descs, idx |-> idx, mx |-> mx]
  ELSE LET d == descs[i]
           isNamed == HeadIn(d, {"named"})
           tail == Slice(d, 1)
       IN  IF isNamed.exc # "none"
           THEN [exc |-> isNamed.exc, descs |-> descs, idx |-> idx, mx |-> mx]
           ELSE IF ~isNamed.val THEN named_loop(descs, i + 1, idx, mx)
           ELSE IF Len(tail) # 2
           THEN [exc |-> "ValueError", descs |-> descs, idx |-> idx, mx |-> mx]
           ELSE IF Unhashable(tail[1])
           THEN [exc |-> "TypeError", descs |-> [descs EXCEPT ![i] = tail[2]],
                 idx |-> idx, mx |-> mx]
           ELSE named_loop([descs EXCEPT ![i] = tail[2]], i + 1,
                           DictSet(idx, tail[1], i - 1),
                           IF i - 1 > mx THEN i - 1 ELSE mx)

\* inlined_results looking at the first result however many there are.
inlined_results_any_count(ret_descs) ==
  IF Len(ret_descs.e) >= 1
  THEN HeadIn(ret_descs.e[1], {"slist", "stuple", "sdict"})
  ELSE Ok(FALSE)

\* Lines 188-193: a single result whose tag is slist, stuple or sdict.
inlined_results(ret_descs) ==
  IF Len(ret_descs.e) = 1
  THEN HeadIn(ret_descs.e[1], {"slist", "stuple", "sdict"})
  ELSE Ok(FALSE)

\* The binding as __init__ leaves it before _parse_abi_dict runs.
EmptyBinding ==
  [exc |-> "none", cause |-> "none", arg_descs |-> JNull, ret_descs |-> JNull,
   named_arg_indices |-> <<>>, max_named_arg_index |-> -1,
   has_inlined_results |-> FALSE]

\* The fields of the invoker once _parse_abi_dict has run on the function's
\* reflection, with exc the exception that escaped it ("none": it returned).
parse_abi_dict(refl) ==
  IF ~refl.present THEN EmptyBinding
  ELSE IF ~refl.syntax_ok
  THEN [EmptyBinding EXCEPT !.exc = "RuntimeError", !.cause = "JSONDecodeError"]
  ELSE LET a == Subscript(refl.value, "a")
           r == Subscript(refl.value, "r")
       IN  IF a.exc = "KeyError" \/ (a.exc = "none" /\ r.exc = "KeyError")
           THEN [EmptyBinding EXCEPT !.exc = "RuntimeError", !.cause = "KeyError"]
           ELSE IF a.exc # "none" THEN [EmptyBinding EXCEPT !.exc = a.exc]
           ELSE IF a.val.k # "list" \/ r.val.k # "list"
           THEN [EmptyBinding EXCEPT !.exc = "RuntimeError",
                                     !.arg_descs = a.val, !.ret_descs = r.val]
           ELSE LET nl == named_loop(a.val.e, 1, <<>>, -1)
                    il == inlined_results(r.val)
                    sofar == [EmptyBinding EXCEPT !.arg_descs = JL(nl.descs),
                                                  !.ret_descs = r.val,
                                                  !.named_arg_indices = nl.idx,
                                                  !.max_named_arg_index = nl.mx]
                IN  IF nl.exc # "none" THEN [sofar EXCEPT !.exc = nl.exc]
                    ELSE IF il.exc # "none" THEN [sofar EXCEPT !.exc = il.exc]
                    ELSE [sofar EXCEPT !.has_inlined_results = il.val]


(***************************************************************************)
(* Python values and VM variant slots.                                     *)
(***************************************************************************)
PNone == [t |-> "none"]
PInt(n) == [t |-> "int", v |-> n]
PBool(b) == [t |-> "bool", b |-> b]
\* A float is kept as its number of halves: PFloat(5) is 2.5.
PFloat(h) == [t |-> "float", h |-> h]
PStr(s) == [t |-> "str", s |-> s]
PList(items) == [t |-> "list", items |-> items]
PTuple(items) == [t |-> "tuple", items |-> items]
PDict(keys, vals) == [t |-> "dict", keys |-> keys, vals |-> vals]
\* A numpy array: its dtype, shape and elements (in halves, row-major); obj is
\* the wrapped Python object of a 0-d str or object array, PNone otherwise.
PArr(dtype, shape, data, obj) ==
  [t |-> "ndarray", dtype |-> dtype, shape |-> shape, data |-> data, obj |-> obj]
\* An instance of a class with no registered converter; repr_ok tells whether
\* its __repr__ returns.
PObj(repr_ok) == [t |-> "object", repr_ok |-> repr_ok]
\* A VmVariantList seen as a Python value.
PVmList(items) == [t |-> "vmlist", items |-> items]

VInt(n) == [vk |-> "int", v |-> n]
VFloat(h) == [vk |-> "float", h |-> h]
VList(items) == [vk |-> "list", items |-> items]
VBuf(et, shape, data) == [vk |-> "buffer", et |-> et, shape |-> shape, data |-> data]

\* The singleton placeholder of lines 307-314.
MissingArgument == [t |-> "missing"]

\* The keys of PYTHON_TO_VM_CONVERTERS (lines 316-325), by class.
PYTHON_TO_VM_CONVERTERS ==
  {"bool", "int", "float", "list", "tuple", "dict", "str", "ndarray"}

\* ABI_TYPE_TO_DTYPE (lines 417-426), as numpy dtype names.
ABI_TYPE_TO_DTYPE(tag) ==
  CASE tag = "f32" -> "float32" [] tag = "i32" -> "int32" [] tag = "i64" -> "int64"
    [] tag = "f64" -> "float64" [] tag = "i16" -> "int16" [] tag = "i8" -> "int8"
    [] tag = "i1" -> "bool"

AbiDtypeTags == {"f32", "i32", "i64", "f64", "i16", "i8", "i1"}

\* DTYPE_TO_HAL_ELEMENT_TYPE (lines 432-445).
DTYPE_TO_HAL_ELEMENT_TYPE(dtype) ==
  CASE dtype = "float32" -> "FLOAT_32" [] dtype = "float64" -> "FLOAT_64"
    [] dtype = "float16" -> "FLOAT_16" [] dtype = "int32" -> "SINT_32"
    [] dtype = "int64" -> "SINT_64" [] dtype = "int16" -> "SINT_16"
    [] dtype = "int8" -> "SINT_8" [] dtype = "uint32" -> "UINT_32"
    [] dtype = "uint64" -> "UINT_64" [] dtype = "uint16" -> "UINT_16"
    [] dtype = "uint8" -> "UINT_8" [] dtype = "bool" -> "BOOL_8"

HalDtypes ==
  {"float32", "float64", "float16", "int32", "int64", "int16", "int8",
   "uint32", "uint64", "uint16", "uint8", "bool"}

FloatDtypes == {"float16", "float32", "float64"}

(***************************************************************************)
(* numpy, as far as function.py uses it.                                   *)
(***************************************************************************)
\* The halves of a numeric scalar.
Halves(x) ==
  CASE x.t = "int" -> 2 * x.v
    [] x.t = "bool" -> IF x.b THEN 2 ELSE 0
    [] x.t = "float" -> x.h

\* Truncation toward zero of a number of halves, as a number of halves.
Trunc(h) == IF h >= 0 THEN 2 * (h \div 2) ELSE -(2 * ((-h) \div 2))

\* One element cast to dtype.
CastElem(h, dtype) ==
  IF dtype \in FloatDtypes THEN h
  ELSE IF dtype = "bool" THEN (IF h = 0 THEN 0 ELSE 2)
  ELSE Trunc(h)

IsScalar(x) == x.t \in {"int", "bool", "float"}

\* The dtype numpy infers for a scalar, and for a sequence of scalars.
ScalarDtype(x) ==
  CASE x.t = "int" -> "int64" [] x.t = "bool" -> "bool" [] x.t = "float" -> "float64"

SeqDtype(items) ==
  IF \E i \in 1..Len(items) : items[i].t = "float" THEN "float64"
  ELSE IF \E i \in 1..Len(items) : items[i].t = "int" THEN "int64"
  ELSE IF Len(items) = 0 THEN "float64"
  ELSE "bool"

\* np.asarray(x): an array is returned as it is, a scalar becomes a 0-d array,
\* a flat sequence of scalars a 1-d array, a str a 0-d str array, and any
\* other object (a dict, a sequence holding a non-scalar, an instance) is
\* wrapped in an object array.
np_asarray(x) ==
  CASE x.t = "ndarray" -> x
    [] IsScalar(x) -> PArr(ScalarDtype(x), <<>>, <<Halves(x)>>, PNone)
    [] x.t \in {"list", "tuple"} /\ (\A i \in 1..Len(x.items) : IsScalar(x.items[i])) ->
         PArr(SeqDtype(x.items), <<Len(x.items)>>,
              [i \in 1..Len(x.items) |-> Halves(x.items[i])], PNone)
    [] x.t = "str" -> PArr("str", <<>>, <<>>, x)
    [] OTHER -> PArr("object", <<>>, <<>>, x)

\* The number a str denotes when numpy parses it, in halves; only "5" does
\* among the strings of the model.
NumericStrs == {"5"}
StrHalves(s) == 10

\* bool(x) of the object an object array wraps: a dict is true unless empty,
\* an instance is true.
Truth(x) == IF x.t = "dict" THEN (IF Len(x.keys) = 0 THEN 0 ELSE 2) ELSE 2

\* x.astype(dtype) for a numeric dtype.  An object array casts its element
\* with dtype's constructor: int() and float() raise TypeError on a dict or
\* an instance, bool() takes the truth value.
astype(x, dtype) ==
  IF x.dtype = "str"
  THEN IF x.obj.s \in NumericStrs
       THEN Ok(PArr(dtype, x.shape, <<CastElem(StrHalves(x.obj.s), dtype)>>, PNone))
       ELSE Raise("ValueError")
  ELSE IF x.dtype = "object"
  THEN IF dtype = "bool" /\ x.obj.t \in {"dict", "object"}
       THEN Ok(PArr(dtype, x.shape, <<Truth(x.obj)>>, PNone))
       ELSE Raise("TypeError")
  ELSE Ok(PArr(dtype, x.shape,
               [i \in 1..Len(x.data) |-> CastElem(x.data[i], dtype)], PNone))


(***************************************************************************)
(* The Invocation error context (lines 23-57) and the two raise helpers.   *)
(***************************************************************************)
\* Invocation.__init__: lines 32-38.
NewInvocation ==
  [current_arg |-> PNone, current_desc |-> JNull,
   current_return_list |-> PNone, current_return_index |-> 0]

\* Whether repr(x) returns: the repr of a container calls that of its items.
RECURSIVE repr_ok(_)
repr_ok(x) ==
  CASE x.t = "object" -> x.repr_ok
    [] x.t \in {"list", "tuple"} -> \A i \in 1..Len(x.items) : repr_ok(x.items[i])
    [] x.t = "dict" -> \A i \in 1..Len(x.vals) : repr_ok(x.vals[i])
    [] OTHER -> TRUE

\* Invocation.summarize_arg_error: the text names the current argument and
\* descriptor; it is built with repr(current_arg), which may raise.
summarize_arg_error(inv) ==
  IF inv.current_arg.t = "none" THEN Ok([arg |-> PNone, desc |-> JNull])
  ELSE IF inv.current_arg.t = "ndarray" \/ repr_ok(inv.current_arg)
  THEN Ok([arg |-> inv.current_arg, desc |-> inv.current_desc])
  ELSE Raise("Exception")

\* The outcome of an encoding or decoding routine: the exception that left it
\* ("none": it returned) with its __cause__, the error context, and the
\* target VM list (encoding) or the value produced (decoding).
Res(exc, cause, inv, vm) == [exc |-> exc, cause |-> cause, inv |-> inv, vm |-> vm]

\* raise_argument_error clearing the error context as it raises.
raise_argument_error_reset(inv, vm, cause) ==
  LET summary == summarize_arg_error(inv) IN
  IF summary.exc # "none" THEN Res(summary.exc, "none", NewInvocation, vm)
  ELSE Res("ArgumentError", cause, NewInvocation, vm)

\* _raise_argument_error: lines 475-484.
raise_argument_error(inv, vm, cause) ==
  LET summary == summarize_arg_error(inv) IN
  IF summary.exc # "none" THEN Res(summary.exc, "none", inv, vm)
  ELSE Res("ArgumentError", cause, inv, vm)

(***************************************************************************)
(* Python to VM converters: lines 206-304 and 448-464.                     *)
(***************************************************************************)
\* _is_0d_ndarray_descriptor: `desc and desc[0] == "ndarray" and desc[2] == 0`.
is_0d_ndarray_descriptor(desc) ==
  With(HeadIn(desc, {"ndarray"}), LAMBDA h :
    IF h.exc # "none" THEN h
    ELSE IF ~h.val THEN Ok(FALSE)
    ELSE With(IndexN(desc, 2), LAMBDA r :
           IF r.exc # "none" THEN r ELSE Ok(r.val = JN(0))))

\* ABI_TYPE_TO_DTYPE[dtype_str]: the dtype, KeyError or (unhashable) TypeError.
lookup_abi_dtype(j) ==
  IF Unhashable(j) THEN Raise("TypeError")
  ELSE IF j.k = "str" /\ j.s \in AbiDtypeTags THEN Ok(ABI_TYPE_TO_DTYPE(j.s))
  ELSE Raise("KeyError")

\* Lines 294-300: the HAL element type of the array's dtype, and the push.
push_buffer_view(inv, t, y) ==
  IF y.dtype \notin HalDtypes THEN raise_argument_error(inv, t, "none")
  ELSE Res("none", "none", inv,
           Append(t, VBuf(DTYPE_TO_HAL_ELEMENT_TYPE(y.dtype), y.shape, y.data)))

\* Lines 284-293: the rank and the dimensions of the (cast) array y.
check_shape(inv, t, y, desc) ==
  With(IndexN(desc, 2), LAMBDA rank :
    IF rank.exc # "none" THEN Res(rank.exc, "none", inv, t)
    ELSE IF Len(Slice(desc, 3)) # Len(y.shape) \/ rank.val # JN(Len(y.shape))
    THEN raise_argument_error(inv, t, "none")
    ELSE IF \E i \in 1..Len(y.shape) :
              Slice(desc, 3)[i] # JNull /\ Slice(desc, 3)[i] # JN(y.shape[i])
    THEN raise_argument_error(inv, t, "none")
    ELSE push_buffer_view(inv, t, y))

\* _ndarray_to_vm: lines 271-300; x is an array.
ndarray_to_vm(inv, t, x, desc) ==
  IF desc = JNull THEN push_buffer_view(inv, t, x)
  ELSE
    With(Index0(desc), LAMBDA desc_type :
      IF desc_type.exc # "none" THEN Res(desc_type.exc, "none", inv, t)
      ELSE IF desc_type.val # JS("ndarray") THEN raise_argument_error(inv, t, "none")
      ELSE
        With(IndexN(desc, 1), LAMBDA dtype_str :
          IF dtype_str.exc # "none" THEN Res(dtype_str.exc, "none", inv, t)
          ELSE
            With(lookup_abi_dtype(dtype_str.val), LAMBDA dtype :
              IF dtype.exc = "KeyError" THEN raise_argument_error(inv, t, "none")
              ELSE IF dtype.exc # "none" THEN Res(dtype.exc, "none", inv, t)
              ELSE
                With(IF dtype.val # x.dtype THEN astype(x, dtype.val) ELSE Ok(x),
                     LAMBDA cast :
                  IF cast.exc # "none" THEN Res(cast.exc, "none", inv, t)
                  ELSE check_shape(inv, t, cast.val, desc)))))

\* ndarray_like_to_vm pushing a scalar as a plain slot, with no promotion to
\* an array.
ndarray_like_to_vm_plain_scalar(inv, t, x, desc) ==
  IF x.t = "float" THEN Res("none", "none", inv, Append(t, VFloat(x.h)))
  ELSE IF x.t = "int" THEN Res("none", "none", inv, Append(t, VInt(x.v)))
  ELSE IF x.t = "bool" THEN Res("none", "none", inv, Append(t, VInt(IF x.b THEN 1 ELSE 0)))
  ELSE ndarray_to_vm(inv, t, np_asarray(x), desc)

\* _ndarray_like_to_vm: lines 303-304.
ndarray_like_to_vm(inv, t, x, desc) == ndarray_to_vm(inv, t, np_asarray(x), desc)

\* _cast_scalar_to_ndarray: lines 457-464; h is the scalar in halves.
cast_scalar_to_ndarray(inv, t, h, desc) ==
  With(IndexN(desc, 1), LAMBDA dtype_str :
    IF dtype_str.exc # "none" THEN Res(dtype_str.exc, "none", inv, t)
    ELSE With(lookup_abi_dtype(dtype_str.val), LAMBDA dtype :
           IF dtype.exc = "KeyError" THEN raise_argument_error(inv, t, "none")
           ELSE IF dtype.exc # "none" THEN Res(dtype.exc, "none", inv, t)
           ELSE Res("none", "none", inv,
                    PArr(dtype.val, <<>>, <<CastElem(h, dtype.val)>>, PNone))))

\* scalar_to_vm refusing a descriptor that is a record (a composite).
scalar_to_vm_checked(inv, t, h, desc, slot) ==
  IF desc # JNull /\ desc.k = "list" THEN raise_argument_error(inv, t, "none")
  ELSE Res("none", "none", inv, Append(t, slot))

\* The shared body of _int_to_vm and _float_to_vm: the implicit conversion to
\* a 0-d tensor, or else the plain slot.
scalar_to_vm(inv, t, h, desc, slot) ==
  With(IF Truthy(desc) THEN is_0d_ndarray_descriptor(desc) ELSE Ok(FALSE),
       LAMBDA is0d :
    IF is0d.exc # "none" THEN Res(is0d.exc, "none", inv, t)
    ELSE IF is0d.val
    THEN With(cast_scalar_to_ndarray(inv, t, h, desc), LAMBDA casted :
           IF casted.exc # "none" THEN casted
           ELSE ndarray_to_vm(inv, t, casted.vm, desc))
    ELSE Res("none", "none", inv, Append(t, slot)))

\* _int_to_vm: lines 210-216.
int_to_vm(inv, t, n, desc) == scalar_to_vm(inv, t, 2 * n, desc, VInt(n))

\* _bool_to_vm: lines 206-207, with int(x).
bool_to_vm(inv, t, x, desc) == int_to_vm(inv, t, IF x.b THEN 1 ELSE 0, desc)

\* _float_to_vm: lines 219-225.
float_to_vm(inv, t, x, desc) == scalar_to_vm(inv, t, x.h, desc, VFloat(x.h))

\* _str_to_vm: lines 267-268.
str_to_vm(inv, t, x, desc) == raise_argument_error(inv, t, "none")

\* `key, value_desc = d`: unpacking one entry of an sdict descriptor.
Unpack2(d) ==
  CASE d.k = "list" -> IF Len(d.e) = 2 THEN Ok(d.e) ELSE Raise("ValueError")
    [] d.k = "obj" -> IF Len(d.keys) = 2 THEN Ok(<<JS(d.keys[1]), JS(d.keys[2])>>)
                      ELSE Raise("ValueError")
    [] d.k = "str" -> IF d.s = "i8" THEN Ok(<<JS("i"), JS("8")>>)
                      ELSE IF d.s = "i1" THEN Ok(<<JS("i"), JS("1")>>)
                      ELSE Raise("ValueError")
    [] OTHER -> Raise("TypeError")

\* x[key] on a Python dict with str keys.
DictGet(x, key) ==
  IF Unhashable(key) THEN Raise("TypeError")
  ELSE IF key.k = "str" /\ \E i \in 1..Len(x.keys) : x.keys[i] = key.s
  THEN Ok(x.vals[CHOOSE i \in 1..Len(x.keys) : x.keys[i] = key.s])
  ELSE Raise("KeyError")

\* The loop of lines 255-260 from entry i: the values and descriptors picked.
RECURSIVE dict_items(_, _, _, _, _)
dict_items(x, subs, i, py_values, value_descs) ==
  IF i > Len(subs)
  THEN [exc |-> "none", py_values |-> py_values, value_descs |-> value_descs]
  ELSE With(Unpack2(subs[i]), LAMBDA kv :
         IF kv.exc # "none"
         THEN [exc |-> kv.exc, py_values |-> py_values, value_descs |-> value_descs]
         ELSE With(DictGet(x, kv.val[1]), LAMBDA item :
                IF item.exc # "none"
                THEN [exc |-> item.exc, py_values |-> py_values,
                      value_descs |-> value_descs]
                ELSE dict_items(x, subs, i + 1, Append(py_values, item.val),
                                Append(value_descs, kv.val[2]))))

\* The number of entries of py_list that are not the MissingArgument placeholder.
CountPresent(py_list) ==
  Cardinality({i \in 1..Len(py_list) : py_list[i] # MissingArgument})

Min(a, b) == IF a <= b THEN a ELSE b

RECURSIVE merge_loop(_, _, _, _, _)
RECURSIVE convert_to_vm(_, _, _, _, _)

\* _merge_python_sequence_to_vm: lines 498-532.  descs is None (JNull) or a
\* list of descriptors.
merge_python_sequence_to_vm(inv, vm_list, py_list, descs) ==
  IF descs = JNull
  THEN merge_loop(inv, vm_list, py_list, [i \in 1..Len(py_list) |-> JNull], 1)
  ELSE IF Len(py_list) # CountPresent(py_list)
  THEN \* the message formats py_list with repr before the raise
       IF \A i \in 1..Len(py_list) : repr_ok(py_list[i])
       THEN raise_argument_error(inv, vm_list, "none")
       ELSE Res("Exception", "none", inv, vm_list)
  ELSE merge_loop(inv, vm_list, py_list, descs.e, 1)

\* Lines 241-243 and 262-264: the nested list sub.vm pushed as one slot of t,
\* unless encoding it raised.
push_list(t, sub) ==
  IF sub.exc # "none" THEN Res(sub.exc, sub.cause, sub.inv, t)
  ELSE Res("none", "none", sub.inv, Append(t, VList(sub.vm)))

\* list_or_tuple_to_vm without the comparison of len(x) with the arity.
list_or_tuple_to_vm_any_length(inv, t, x, desc) ==
  With(Index0(desc), LAMBDA desc_type :
    IF desc_type.exc # "none" THEN Res(desc_type.exc, "none", inv, t)
    ELSE IF desc_type.val \notin {JS("slist"), JS("stuple")}
    THEN raise_argument_error(inv, t, "none")
    ELSE With(merge_python_sequence_to_vm(inv, <<>>, x.items, JL(Slice(desc, 1))),
              LAMBDA sub : push_list(t, sub)))

\* _list_or_tuple_to_vm: lines 228-243.
list_or_tuple_to_vm(inv, t, x, desc) ==
  With(Index0(desc), LAMBDA desc_type :
    IF desc_type.exc # "none" THEN Res(desc_type.exc, "none", inv, t)
    ELSE IF desc_type.val \notin {JS("slist"), JS("stuple")}
    THEN raise_argument_error(inv, t, "none")
    ELSE IF Len(x.items) # Len(Slice(desc, 1))
    THEN raise_argument_error(inv, t, "none")
    ELSE With(merge_python_sequence_to_vm(inv, <<>>, x.items, JL(Slice(desc, 1))),
              LAMBDA sub : push_list(t, sub)))

\* _dict_to_vm: lines 246-264.
dict_to_vm(inv, t, x, desc) ==
  With(Index0(desc), LAMBDA desc_type :
    IF desc_type.exc # "none" THEN Res(desc_type.exc, "none", inv, t)
    ELSE IF desc_type.val # JS("sdict") THEN raise_argument_error(inv, t, "none")
    ELSE With(dict_items(x, Slice(desc, 1), 1, <<>>, <<>>), LAMBDA picked :
           IF picked.exc = "KeyError" THEN raise_argument_error(inv, t, "none")
           ELSE IF picked.exc # "none" THEN Res(picked.exc, "none", inv, t)
           ELSE With(merge_python_sequence_to_vm(inv, <<>>, picked.py_values,
                                                 JL(picked.value_descs)),
                     LAMBDA sub : push_list(t, sub))))

\* The call converter(inv, vm_list, py_value, desc) of line 527, by the name
\* of the converter chosen.
convert_to_vm(converter, inv, t, x, desc) ==
  CASE converter = "ndarray_like" -> ndarray_like_to_vm(inv, t, x, desc)
    [] converter = "bool" -> bool_to_vm(inv, t, x, desc)
    [] converter = "int" -> int_to_vm(inv, t, x.v, desc)
    [] converter = "float" -> float_to_vm(inv, t, x, desc)
    [] converter \in {"list", "tuple"} -> list_or_tuple_to_vm(inv, t, x, desc)
    [] converter = "dict" -> dict_to_vm(inv, t, x, desc)
    [] converter = "str" -> str_to_vm(inv, t, x, desc)
    [] converter = "ndarray" -> ndarray_to_vm(inv, t, x, desc)

\* The loop of lines 510-532 from element i of zip(py_list, descs).
merge_loop(inv, vm_list, py_list, descs, i) ==
  IF i > Min(Len(py_list), Len(descs)) THEN Res("none", "none", inv, vm_list)
  ELSE
    With([inv EXCEPT !.current_arg = py_list[i], !.current_desc = descs[i]],
         LAMBDA inv1 :
      With(HeadIn(descs[i], {"ndarray"}), LAMBDA is_nd :
        IF is_nd.exc # "none" THEN Res(is_nd.exc, "none", inv1, vm_list)
        ELSE IF ~is_nd.val /\ py_list[i].t \notin PYTHON_TO_VM_CONVERTERS
        THEN raise_argument_error(inv1, vm_list, "none")
        ELSE
          With(convert_to_vm(IF is_nd.val THEN "ndarray_like" ELSE py_list[i].t,
                             inv1, vm_list, py_list[i], descs[i]),
               LAMBDA r :
            IF r.exc = "ArgumentError" THEN r
            ELSE IF r.exc # "none" THEN raise_argument_error(r.inv, r.vm, r.exc)
            ELSE merge_loop(r.inv, r.vm, py_list, descs, i + 1))))

(***************************************************************************)
(* The VmVariantList accessors of the native binding module (imported at   *)
(* line 15), on one slot.  A slot of another kind than the accessor asks   *)
(* for makes the binding raise.                                            *)
(***************************************************************************)
\* The numpy dtype a buffer view's HAL element type reads back as.
HalToDtype(et) == CHOOSE d \in HalDtypes : DTYPE_TO_HAL_ELEMENT_TYPE(d) = et

get_variant(slot) ==
  CASE slot.vk = "int" -> PInt(slot.v)
    [] slot.vk = "float" -> PFloat(slot.h)
    [] slot.vk = "list" -> PVmList(slot.items)
    [] slot.vk = "buffer" ->
         [t |-> "bufferview", et |-> slot.et, shape |-> slot.shape, data |-> slot.data]

get_as_list(slot) ==
  IF slot.vk = "list" THEN Ok(slot.items) ELSE Raise("VmAccessError")

get_as_ndarray(slot) ==
  IF slot.vk = "buffer"
  THEN Ok(PArr(HalToDtype(slot.et), slot.shape, slot.data, PNone))
  ELSE Raise("VmAccessError")

(***************************************************************************)
(* VM to Python converters: lines 335-415, 487-495 and 535-565.            *)
(***************************************************************************)
\* Invocation.summarize_return_error: formatting failures are caught inside.
summarize_return_error(inv) ==
  IF inv.current_return_list.t = "none" THEN Ok([index |-> 0, desc |-> JNull])
  ELSE Ok([index |-> inv.current_return_index, desc |-> inv.current_desc])

\* _raise_return_error: lines 487-495.
raise_return_error(inv, cause) ==
  LET summary == summarize_return_error(inv) IN
  IF summary.exc # "none" THEN Res(summary.exc, "none", inv, <<>>)
  ELSE Res("ReturnError", cause, inv, <<>>)

\* The keys of VM_TO_PYTHON_CONVERTERS (lines 399-415).
IntTags == {"i8", "i16", "i32", "i64"}
FloatTags == {"f16", "f32", "f64", "bf16"}
VM_TO_PYTHON_CONVERTERS ==
  {"ndarray", "sdict", "slist", "stuple", "py_homogeneous_list"}
    \cup IntTags \cup FloatTags

\* _vm_to_scalar(type_bound).convert: lines 379-384.
vm_to_scalar(type_bound, inv, slot) ==
  IF get_variant(slot).t # type_bound THEN Res("ReturnError", "none", inv, PNone)
  ELSE Res("none", "none", inv, get_variant(slot))

\* _vm_to_ndarray: lines 335-348.
vm_to_ndarray(inv, slot, desc) ==
  With(get_as_ndarray(slot), LAMBDA x :
    IF x.exc # "none" THEN Res(x.exc, "none", inv, PNone)
    ELSE With(IndexN(desc, 1), LAMBDA dtype_str :
      IF dtype_str.exc # "none" THEN Res(dtype_str.exc, "none", inv, PNone)
      ELSE With(lookup_abi_dtype(dtype_str.val), LAMBDA dtype :
        IF dtype.exc = "KeyError" THEN raise_return_error(inv, "none")
        ELSE IF dtype.exc # "none" THEN Res(dtype.exc, "none", inv, PNone)
        ELSE IF dtype.val # x.val.dtype
        THEN With(astype(x.val, dtype.val), LAMBDA cast :
               IF cast.exc # "none" THEN Res(cast.exc, "none", inv, PNone)
               ELSE Res("none", "none", inv, cast.val))
        ELSE Res("none", "none", inv, x.val))))

\* The loop of lines 357-359: the keys and descriptors of an sdict descriptor.
RECURSIVE sdict_entries(_, _, _, _)
sdict_entries(subs, i, item_keys, item_descs) ==
  IF i > Len(subs)
  THEN [exc |-> "none", item_keys |-> item_keys, item_descs |-> item_descs]
  ELSE With(Unpack2(subs[i]), LAMBDA kd :
         IF kd.exc # "none"
         THEN [exc |-> kd.exc, item_keys |-> item_keys, item_descs |-> item_descs]
         ELSE sdict_entries(subs, i + 1, Append(item_keys, kd.val[1]),
                            Append(item_descs, kd.val[2])))

\* dict(zip(keys, values)) for str keys: a repeated key keeps its first place
\* and takes its last value.
RECURSIVE dict_zip(_, _, _, _)
dict_zip(keys, values, i, d) ==
  IF i > Min(Len(keys), Len(values)) THEN d
  ELSE IF \E n \in 1..Len(d.keys) : d.keys[n] = keys[i].s
  THEN dict_zip(keys, values, i + 1,
                PDict(d.keys, [n \in 1..Len(d.keys) |->
                                 IF d.keys[n] = keys[i].s THEN values[i] ELSE d.vals[n]]))
  ELSE dict_zip(keys, values, i + 1,
                PDict(Append(d.keys, keys[i].s), Append(d.vals, values[i])))

\* n copies of a list, concatenated (Python's list * n).
RECURSIVE Repeat(_, _)
Repeat(l, n) == IF n <= 0 THEN <<>> ELSE l \o Repeat(l, n - 1)

RECURSIVE extract_loop(_, _, _, _, _)
RECURSIVE extract_loop_unmapped_dynamic(_, _, _, _, _)
RECURSIVE convert_to_python(_, _, _, _)

\* extract_vm_sequence_to_python taking None for an empty descriptor list.
extract_vm_sequence_no_dynamic(inv, vm_list, descs) ==
  IF Len(vm_list) # (IF descs = JNull THEN 0 ELSE Len(descs.e))
  THEN raise_return_error(inv, "none")
  ELSE extract_loop(inv, vm_list, IF descs = JNull THEN <<>> ELSE descs.e, 1, <<>>)

\* extract_vm_sequence_to_python without the comparison of the two lengths:
\* zip stops at the shorter of the two.
extract_vm_sequence_unchecked(inv, vm_list, descs) ==
  IF descs = JNull
  THEN extract_loop(inv, vm_list, [i \in 1..Len(vm_list) |-> JNull], 1, <<>>)
  ELSE extract_loop(inv, vm_list, descs.e, 1, <<>>)

\* _extract_vm_sequence_to_python: lines 535-565.  descs is None (JNull) or
\* a list of descriptors; the value returned is the Python list of results.
extract_vm_sequence_to_python(inv, vm_list, descs) ==
  IF descs = JNull
  THEN extract_loop(inv, vm_list, [i \in 1..Len(vm_list) |-> JNull], 1, <<>>)
  ELSE IF Len(vm_list) # Len(descs.e) THEN raise_return_error(inv, "none")
  ELSE extract_loop(inv, vm_list, descs.e, 1, <<>>)

\* vm_to_slist returning the decoded items last to first.
vm_to_slist_reversed(inv, slot, desc) ==
  With(get_as_list(slot), LAMBDA sub_vm_list :
    IF sub_vm_list.exc # "none" THEN Res(sub_vm_list.exc, "none", inv, PNone)
    ELSE With(extract_vm_sequence_to_python(inv, sub_vm_list.val, JL(Slice(desc, 1))),
              LAMBDA py_items :
           IF py_items.exc # "none" THEN py_items
           ELSE Res("none", "none", py_items.inv,
                    PList([i \in 1..Len(py_items.vm) |->
                             py_items.vm[Len(py_items.vm) + 1 - i]]))))

\* _vm_to_slist: lines 364-370.
vm_to_slist(inv, slot, desc) ==
  With(get_as_list(slot), LAMBDA sub_vm_list :
    IF sub_vm_list.exc # "none" THEN Res(sub_vm_list.exc, "none", inv, PNone)
    ELSE With(extract_vm_sequence_to_python(inv, sub_vm_list.val, JL(Slice(desc, 1))),
              LAMBDA py_items :
           IF py_items.exc # "none" THEN py_items
           ELSE Res("none", "none", py_items.inv, PList(py_items.vm))))

\* _vm_to_stuple: lines 373-374.
vm_to_stuple(inv, slot, desc) ==
  With(vm_to_slist(inv, slot, desc), LAMBDA l :
    IF l.exc # "none" THEN l ELSE Res("none", "none", l.inv, PTuple(l.vm.items)))

\* _vm_to_sdict: lines 351-361.
vm_to_sdict(inv, slot, desc) ==
  With(get_as_list(slot), LAMBDA sub_vm_list :
    IF sub_vm_list.exc # "none" THEN Res(sub_vm_list.exc, "none", inv, PNone)
    ELSE With(sdict_entries(Slice(desc, 1), 1, <<>>, <<>>), LAMBDA entries :
      IF entries.exc # "none" THEN Res(entries.exc, "none", inv, PNone)
      ELSE With(extract_vm_sequence_to_python(inv, sub_vm_list.val,
                                              JL(entries.item_descs)),
                LAMBDA py_items :
        IF py_items.exc # "none" THEN py_items
        ELSE IF \E i \in 1..Len(entries.item_keys) : Unhashable(entries.item_keys[i])
        THEN Res("TypeError", "none", py_items.inv, PNone)
        ELSE Res("none", "none", py_items.inv,
                 dict_zip(entries.item_keys, py_items.vm, 1, PDict(<<>>, <<>>))))))

\* _vm_to_pylist: lines 389-396.
vm_to_pylist(inv, slot, desc) ==
  With(get_as_list(slot), LAMBDA sub_vm_list :
    IF sub_vm_list.exc # "none" THEN Res(sub_vm_list.exc, "none", inv, PNone)
    ELSE With(extract_vm_sequence_to_python(inv, sub_vm_list.val,
                JL(Repeat(Slice(desc, 1), Len(sub_vm_list.val)))),
              LAMBDA py_items :
           IF py_items.exc # "none" THEN py_items
           ELSE Res("none", "none", py_items.inv, PList(py_items.vm))))

\* The call converter(inv, vm_list, vm_index, desc) of line 558, by tag.
convert_to_python(vm_type, inv, slot, desc) ==
  CASE vm_type = "ndarray" -> vm_to_ndarray(inv, slot, desc)
    [] vm_type = "sdict" -> vm_to_sdict(inv, slot, desc)
    [] vm_type = "slist" -> vm_to_slist(inv, slot, desc)
    [] vm_type = "stuple" -> vm_to_stuple(inv, slot, desc)
    [] vm_type = "py_homogeneous_list" -> vm_to_pylist(inv, slot, desc)
    [] vm_type \in IntTags -> vm_to_scalar("int", inv, slot)
    [] vm_type \in FloatTags -> vm_to_scalar("float", inv, slot)

\* Line 552: `desc if isinstance(desc, str) else desc[0]`.
vm_type_of(desc) == IF desc.k = "str" THEN Ok(desc) ELSE Index0(desc)

\* extract_loop taking the slot as it is (as in dynamic mode) when no
\* converter is mapped to the descriptor's tag.
extract_loop_unmapped_dynamic(inv, vm_list, descs, i, results) ==
  IF i > Min(Len(vm_list), Len(descs)) THEN Res("none", "none", inv, results)
  ELSE
    With([inv EXCEPT !.current_return_list = PVmList(vm_list),
                     !.current_return_index = i - 1,
                     !.current_desc = descs[i]],
         LAMBDA inv1 :
      IF descs[i] = JNull
      THEN extract_loop_unmapped_dynamic(inv1, vm_list, descs, i + 1,
                                         Append(results, get_variant(vm_list[i])))
      ELSE
        With(vm_type_of(descs[i]), LAMBDA vm_type :
          IF vm_type.exc # "none" THEN Res(vm_type.exc, "none", inv1, <<>>)
          ELSE IF Unhashable(vm_type.val) THEN Res("TypeError", "none", inv1, <<>>)
          ELSE IF ~(vm_type.val.k = "str" /\ vm_type.val.s \in VM_TO_PYTHON_CONVERTERS)
          THEN extract_loop_unmapped_dynamic(inv1, vm_list, descs, i + 1,
                                             Append(results, get_variant(vm_list[i])))
          ELSE
            With(convert_to_python(vm_type.val.s, inv1, vm_list[i], descs[i]),
                 LAMBDA r :
              IF r.exc = "ReturnError" THEN Res("ReturnError", r.cause, r.inv, <<>>)
              ELSE IF r.exc # "none" THEN raise_return_error(r.inv, r.exc)
              ELSE extract_loop_unmapped_dynamic(r.inv, vm_list, descs, i + 1,
                                                 Append(results, r.vm)))))

\* The loop of lines 543-564 from slot i (1-based here, i-1 in Python).
extract_loop(inv, vm_list, descs, i, results) ==
  IF i > Min(Len(vm_list), Len(descs)) THEN Res("none", "none", inv, results)
  ELSE
    With([inv EXCEPT !.current_return_list = PVmList(vm_list),
                     !.current_return_index = i - 1,
                     !.current_desc = descs[i]],
         LAMBDA inv1 :
      IF descs[i] = JNull
      THEN extract_loop(inv1, vm_list, descs, i + 1,
                        Append(results, get_variant(vm_list[i])))
      ELSE
        With(vm_type_of(descs[i]), LAMBDA vm_type :
          IF vm_type.exc # "none" THEN Res(vm_type.exc, "none", inv1, <<>>)
          ELSE IF Unhashable(vm_type.val) THEN Res("TypeError", "none", inv1, <<>>)
          ELSE IF ~(vm_type.val.k = "str" /\ vm_type.val.s \in VM_TO_PYTHON_CONVERTERS)
          THEN raise_return_error(inv1, "none")
          ELSE
            With(convert_to_python(vm_type.val.s, inv1, vm_list[i], descs[i]),
                 LAMBDA r :
              IF r.exc = "ReturnError" THEN Res("ReturnError", r.cause, r.inv, <<>>)
              ELSE IF r.exc # "none" THEN raise_return_error(r.inv, r.exc)
              ELSE extract_loop(r.inv, vm_list, descs, i + 1,
                                Append(results, r.vm)))))

(***************************************************************************)
(* FunctionInvoker.__call__, step by step: lines 97-149.                   *)
(***************************************************************************)
\* named_index with a lookup that defaults to position 0 for an unknown name.
named_index_default_zero(named_arg_indices, key) ==
  IF \E n \in 1..Len(named_arg_indices) : named_arg_indices[n].name = JS(key)
  THEN Ok(named_arg_indices[CHOOSE n \in 1..Len(named_arg_indices) :
                              named_arg_indices[n].name = JS(key)].idx)
  ELSE Ok(0)

\* self._named_arg_indices[kwarg_key]: the position, or KeyError.
named_index(named_arg_indices, key) ==
  IF \E n \in 1..Len(named_arg_indices) : named_arg_indices[n].name = JS(key)
  THEN Ok(named_arg_indices[CHOOSE n \in 1..Len(named_arg_indices) :
                              named_arg_indices[n].name = JS(key)].idx)
  ELSE Raise("KeyError")

\* kwargs_loop refusing a keyword whose position already holds a value.
RECURSIVE kwargs_loop_reject_override(_, _, _, _)
kwargs_loop_reject_override(named_arg_indices, args, kwargs, i) ==
  IF i > Len(kwargs) THEN [exc |-> "none", args |-> args]
  ELSE LET kwarg_index == named_index(named_arg_indices, kwargs[i].key) IN
       IF kwarg_index.exc # "none" THEN [exc |-> "ArgumentError", args |-> args]
       ELSE IF kwarg_index.val + 1 > Len(args) THEN [exc |-> "IndexError", args |-> args]
       ELSE IF args[kwarg_index.val + 1] # MissingArgument
       THEN [exc |-> "ArgumentError", args |-> args]
       ELSE kwargs_loop_reject_override(named_arg_indices,
                        [args EXCEPT ![kwarg_index.val + 1] = kwargs[i].value],
                        kwargs, i + 1)

\* The loop of lines 117-122 from keyword i, on the padded argument list.
RECURSIVE kwargs_loop(_, _, _, _)
kwargs_loop(named_arg_indices, args, kwargs, i) ==
  IF i > Len(kwargs) THEN [exc |-> "none", args |-> args]
  ELSE LET kwarg_index == named_index(named_arg_indices, kwargs[i].key) IN
       IF kwarg_index.exc # "none" THEN [exc |-> "ArgumentError", args |-> args]
       ELSE IF kwarg_index.val + 1 > Len(args) THEN [exc |-> "IndexError", args |-> args]
       ELSE kwargs_loop(named_arg_indices,
                        [args EXCEPT ![kwarg_index.val + 1] = kwargs[i].value],
                        kwargs, i + 1)

\* merge_kwargs padding one placeholder too few.
merge_kwargs_short_pad(b, args, kwargs) ==
  IF Len(kwargs) = 0 THEN [exc |-> "none", args |-> args]
  ELSE LET len_delta == b.max_named_arg_index - Len(args)
           padded == IF len_delta > 0
                     THEN args \o [i \in 1..len_delta |-> MissingArgument]
                     ELSE args
       IN  kwargs_loop(b.named_arg_indices, padded, kwargs, 1)

\* Lines 108-122: the keyword arguments merged in by name -> position.
merge_kwargs(b, args, kwargs) ==
  IF Len(kwargs) = 0 THEN [exc |-> "none", args |-> args]
  ELSE LET len_delta == b.max_named_arg_index - Len(args) + 1
           padded == IF len_delta > 0
                     THEN args \o [i \in 1..len_delta |-> MissingArgument]
                     ELSE args
       IN  kwargs_loop(b.named_arg_indices, padded, kwargs, 1)

\* reflection_aligned without the un-inlining.
reflection_aligned_no_unwrap(b, ret_list) == ret_list

\* Lines 133-137: the results un-inlined to align with the reflection.
reflection_aligned(b, ret_list) ==
  IF b.has_inlined_results THEN <<VList(ret_list)>> ELSE ret_list

\* return_arity without the 0 and 1 cases.
return_arity_always_tuple(returns) == PTuple(returns)

\* Lines 140-146: the value returned for the decoded results.
return_arity(returns) ==
  IF Len(returns) = 1 THEN returns[1]
  ELSE IF Len(returns) = 0 THEN PNone
  ELSE PTuple(returns)

(***************************************************************************)
(* The inputs of the model.                                                *)
(***************************************************************************)
ArgValues ==
  { PInt(5), PFloat(5), PBool(TRUE), PStr("s"),
    PList(<<PInt(1), PFloat(4)>>),
    PDict(<<"a">>, <<PInt(1)>>),
    PArr("float32", <<>>, <<4>>, PNone),
    PObj(TRUE), PObj(FALSE) }

KwKeys == {"x", "y", "z"}
\* The value passed for a keyword.
KwValue(key) ==
  CASE key = "x" -> PInt(7) [] key = "y" -> PFloat(4) [] key = "z" -> PInt(1)

\* The sequences of at most n elements of S, and those without repetition.
SeqsUpTo(S, n) == UNION {[1..m -> S] : m \in 0..n}
DistinctSeqsUpTo(S, n) ==
  {q \in SeqsUpTo(S, n) : \A i, j \in 1..Len(q) : i # j => q[i] # q[j]}

PositionalArgs == SeqsUpTo(ArgValues, MaxArgs)
KeywordArgs ==
  { [i \in 1..Len(q) |-> [key |-> q[i], value |-> KwValue(q[i])]] :
      q \in DistinctSeqsUpTo(KwKeys, MaxKwargs) }

\* What the VM's invoke may leave in ret_list.
VmResults ==
  { <<>>,
    <<VInt(3)>>,
    <<VFloat(5)>>,
    <<VInt(3), VInt(4)>>,
    <<VInt(3), VFloat(5)>>,
    <<VList(<<VInt(3), VInt(4)>>)>>,
    <<VInt(3), VInt(4), VInt(9)>> }

(***************************************************************************)
(* State.                                                                  *)
(***************************************************************************)
VARIABLES
  pc,          \* where the invoker is: new, unusable, idle, then the call's steps
  vm_function, \* the reflection of the wrapped function
  tracer,      \* whether a tracer is attached (self._tracer)
  binding,     \* the invoker's fields set by __init__ and _parse_abi_dict
  in_args,     \* *args of the current call
  in_kwargs,   \* **kwargs of the current call, in insertion order
  args,        \* the local args, merged
  arg_list,    \* the VM argument list: [created, items]
  ret_list,    \* the VM result list as invoke left it
  invokes,     \* how many times the call has invoked the VM
  returns,     \* the decoded results
  retval,      \* what the call returned: [returned, value]
  error,       \* the exception that left the call: [exc, cause]
  inv,         \* the call's Invocation error context
  log,         \* the steps the call has run and the tracer's events, in order
  other        \* a second call of the same invoker, in flight on another thread

vars ==
  <<pc, vm_function, tracer, binding, in_args, in_kwargs, args, arg_list,
    ret_list, invokes, returns, retval, error, inv, log, other>>

NoError == [exc |-> "none", cause |-> "none"]
NotReturned == [returned |-> FALSE, value |-> PNone]
NoList == [created |-> FALSE, items |-> <<>>]
\* The frame of a call that has not begun: its locals, where it is (pc) and
\* the last step it ran.
NoCall ==
  [pc |-> "idle", step |-> "none", in_args |-> <<>>, in_kwargs |-> <<>>,
   args |-> <<>>, arg_list |-> NoList, ret_list |-> <<>>, returns |-> <<>>,
   retval |-> NotReturned, error |-> NoError, inv |-> NewInvocation]

Init ==
  /\ pc = "new"
  /\ vm_function = NoAbi
  /\ tracer = FALSE
  /\ binding = EmptyBinding
  /\ in_args = <<>>
  /\ in_kwargs = <<>>
  /\ args = <<>>
  /\ arg_list = NoList
  /\ ret_list = <<>>
  /\ invokes = 0
  /\ returns = <<>>
  /\ retval = NotReturned
  /\ error = NoError
  /\ inv = NewInvocation
  /\ log = <<>>
  /\ other = NoCall

\* FunctionInvoker.__init__: lines 75-91.
Construct ==
  /\ pc = "new"
  /\ \E refl \in Reflections, tr \in BOOLEAN :
       /\ vm_function' = refl
       /\ tracer' = tr
       /\ binding' = parse_abi_dict(refl)
  /\ pc' = IF binding'.exc = "none" THEN "idle" ELSE "unusable"
  /\ UNCHANGED <<other, in_args, in_kwargs, args, arg_list, ret_list, invokes,
                 returns, retval, error, inv, log>>

\* Traced without the `if call_trace:` guard.
Traced_unguarded(events) == events

\* The tracer's events a step adds when one is attached.
Traced(events) == IF tracer THEN events ELSE <<>>

\* Fail without the finally clause: the exception leaves and end_call is
\* not called.
Fail_without_finally(step, exc, cause) ==
  /\ pc' = "failed"
  /\ error' = [exc |-> exc, cause |-> cause]
  /\ log' = Append(log, step)

\* An exception leaves the try body in step `step`: the finally clause of
\* lines 147-149 runs and the exception reaches the caller.
Fail(step, exc, cause) ==
  /\ pc' = "failed"
  /\ error' = [exc |-> exc, cause |-> cause]
  /\ log' = log \o <<step>> \o Traced(<<"end_call">>)

\* Lines 97-106: a call begins.
BeginCall ==
  /\ pc = "idle"
  /\ pc' = "merging"
  /\ \E a \in PositionalArgs, kw \in KeywordArgs :
       /\ in_args' = a
       /\ in_kwargs' = kw
       /\ args' = a
  /\ arg_list' = NoList
  /\ ret_list' = <<>>
  /\ invokes' = 0
  /\ returns' = <<>>
  /\ retval' = NotReturned
  /\ error' = NoError
  /\ inv' = NewInvocation
  /\ log' = Traced(<<"start_call">>)
  /\ UNCHANGED <<other, vm_function, tracer, binding>>

\* Merge writing the merged sequence through to the caller's arguments.
MergeInPlace ==
  /\ pc = "merging"
  /\ LET m == merge_kwargs(binding, args, in_kwargs) IN
     /\ args' = m.args
     /\ in_args' = m.args
     /\ IF m.exc # "none" THEN Fail("merge", m.exc, "none")
        ELSE /\ pc' = "encoding"
             /\ log' = Append(log, "merge")
             /\ error' = error
  /\ UNCHANGED <<other, vm_function, tracer, binding, in_kwargs, arg_list,
                 ret_list, invokes, returns, retval, inv>>

\* Lines 108-122.
Merge ==
  /\ pc = "merging"
  /\ LET m == merge_kwargs(binding, args, in_kwargs) IN
     /\ args' = m.args
     /\ IF m.exc # "none" THEN Fail("merge", m.exc, "none")
        ELSE /\ pc' = "encoding"
             /\ log' = Append(log, "merge")
             /\ error' = error
  /\ UNCHANGED <<other, vm_function, tracer, binding, in_args, in_kwargs, arg_list,
                 ret_list, invokes, returns, retval, inv>>

\* Lines 124-128.
Encode ==
  /\ pc = "encoding"
  /\ LET r == merge_python_sequence_to_vm(inv, <<>>, args, binding.arg_descs) IN
     /\ arg_list' = [created |-> TRUE, items |-> r.vm]
     /\ inv' = r.inv
     /\ IF r.exc # "none" THEN Fail("encode", r.exc, r.cause)
        ELSE /\ pc' = "invoking"
             /\ log' = log \o <<"encode">> \o Traced(<<"add_args">>)
             /\ error' = error
  /\ UNCHANGED <<other, vm_function, tracer, binding, in_args, in_kwargs, args,
                 ret_list, invokes, returns, retval>>

\* Lines 129-131: the VM fills ret_list and returns.
Invoke ==
  /\ pc = "invoking"
  /\ invokes' = invokes + 1
  /\ \E results \in VmResults : ret_list' = results
  /\ pc' = "decoding"
  /\ log' = log \o <<"invoke">> \o Traced(<<"add_results">>)
  /\ UNCHANGED <<other, vm_function, tracer, binding, in_args, in_kwargs, args,
                 arg_list, returns, retval, error, inv>>

\* Line 129: the VM's invoke raises.
InvokeRaises ==
  /\ pc = "invoking"
  /\ invokes' = invokes + 1
  /\ Fail("invoke", "VmError", "none")
  /\ UNCHANGED <<other, vm_function, tracer, binding, in_args, in_kwargs, args,
                 arg_list, ret_list, returns, retval, inv>>

\* Decode staying where it is when the decoding fails.
DecodeHangOnFailure ==
  /\ pc = "decoding"
  /\ LET r == extract_vm_sequence_to_python(
                inv, reflection_aligned(binding, ret_list), binding.ret_descs) IN
     IF r.exc # "none"
     THEN UNCHANGED <<pc, returns, log, error, inv>>
     ELSE /\ inv' = r.inv
          /\ pc' = "reconciling"
          /\ returns' = r.vm
          /\ log' = Append(log, "decode")
          /\ error' = error
  /\ UNCHANGED <<other, vm_function, tracer, binding, in_args, in_kwargs, args,
                 arg_list, ret_list, invokes, retval>>

\* Lines 133-139.
Decode ==
  /\ pc = "decoding"
  /\ LET r == extract_vm_sequence_to_python(
                inv, reflection_aligned(binding, ret_list), binding.ret_descs) IN
     /\ inv' = r.inv
     /\ IF r.exc # "none"
        THEN /\ Fail("decode", r.exc, r.cause)
             /\ returns' = returns
        ELSE /\ pc' = "reconciling"
             /\ returns' = r.vm
             /\ log' = Append(log, "decode")
             /\ error' = error
  /\ UNCHANGED <<other, vm_function, tracer, binding, in_args, in_kwargs, args,
                 arg_list, ret_list, invokes, retval>>

\* Lines 140-149: the return value, and the finally clause.
Reconcile ==
  /\ pc = "reconciling"
  /\ retval' = [returned |-> TRUE, value |-> return_arity(returns)]
  /\ pc' = "done"
  /\ log' = log \o <<"reconcile">> \o Traced(<<"end_call">>)
  /\ UNCHANGED <<other, vm_function, tracer, binding, in_args, in_kwargs, args,
                 arg_list, ret_list, invokes, returns, error, inv>>

\* The call is over: its frame, with the Invocation of line 105, is dropped,
\* and the invoker can be called again.
EndCall ==
  /\ pc \in {"done", "failed"}
  /\ pc' = "idle"
  /\ in_args' = <<>>
  /\ in_kwargs' = <<>>
  /\ args' = <<>>
  /\ arg_list' = NoList
  /\ ret_list' = <<>>
  /\ invokes' = 0
  /\ returns' = <<>>
  /\ retval' = NotReturned
  /\ error' = NoError
  /\ inv' = NewInvocation
  /\ log' = <<>>
  /\ UNCHANGED <<other, vm_function, tracer, binding>>

Next ==
  \/ Construct
  \/ BeginCall
  \/ Merge
  \/ Encode
  \/ Invoke
  \/ InvokeRaises
  \/ Decode
  \/ Reconcile
  \/ EndCall

Spec == Init /\ [][Next]_vars

(***************************************************************************)
(* A tracer whose operations may raise.  The calls of the tracer sit at    *)
(* lines 99-100 (before the try), 126-131 (in its body) and 147-149 (in    *)
(* its finally clause), none of them guarded by an except clause.          *)
(***************************************************************************)
TracerError == [exc |-> "TracerError", cause |-> "none"]

\* Line 100: start_call raises, before the try statement is entered.
StartCallRaises ==
  /\ pc = "idle"
  /\ tracer
  /\ pc' = "failed"
  /\ \E a \in PositionalArgs, kw \in KeywordArgs :
       /\ in_args' = a
       /\ in_kwargs' = kw
       /\ args' = a
  /\ arg_list' = NoList
  /\ ret_list' = <<>>
  /\ invokes' = 0
  /\ returns' = <<>>
  /\ retval' = NotReturned
  /\ error' = TracerError
  /\ inv' = NewInvocation
  /\ log' = <<"start_call_raised">>
  /\ UNCHANGED <<other, vm_function, tracer, binding>>

\* Lines 126-128: the arguments are encoded and add_vm_list raises; the
\* finally clause runs end_call and the tracer's exception leaves the call.
AddArgsRaises ==
  /\ pc = "encoding"
  /\ tracer
  /\ LET r == merge_python_sequence_to_vm(inv, <<>>, args, binding.arg_descs) IN
     /\ r.exc = "none"
     /\ arg_list' = [created |-> TRUE, items |-> r.vm]
     /\ inv' = r.inv
  /\ pc' = "failed"
  /\ error' = TracerError
  /\ log' = log \o <<"encode", "add_args_raised", "end_call">>
  /\ UNCHANGED <<other, vm_function, tracer, binding, in_args, in_kwargs, args,
                 ret_list, invokes, returns, retval>>

\* Lines 129-131: the VM returns and add_vm_list raises.
AddResultsRaises ==
  /\ pc = "invoking"
  /\ tracer
  /\ invokes' = invokes + 1
  /\ \E results \in VmResults : ret_list' = results
  /\ pc' = "failed"
  /\ error' = TracerError
  /\ log' = log \o <<"invoke", "add_results_raised", "end_call">>
  /\ UNCHANGED <<other, vm_function, tracer, binding, in_args, in_kwargs, args,
                 arg_list, returns, retval, inv>>

\* Lines 147-149: end_call raises in the finally clause; its exception
\* replaces whatever was leaving the try body, exception or return value.
FailMasked(step) ==
  /\ pc' = "failed"
  /\ error' = TracerError
  /\ log' = log \o <<step, "end_call_raised">>

MergeEndCallRaises ==
  /\ pc = "merging"
  /\ tracer
  /\ LET m == merge_kwargs(binding, args, in_kwargs) IN
     /\ m.exc # "none"
     /\ args' = m.args
  /\ FailMasked("merge")
  /\ UNCHANGED <<other, vm_function, tracer, binding, in_args, in_kwargs, arg_list,
                 ret_list, invokes, returns, retval, inv>>

EncodeEndCallRaises ==
  /\ pc = "encoding"
  /\ tracer
  /\ LET r == merge_python_sequence_to_vm(inv, <<>>, args, binding.arg_descs) IN
     /\ r.exc # "none"
     /\ arg_list' = [created |-> TRUE, items |-> r.vm]
     /\ inv' = r.inv
  /\ FailMasked("encode")
  /\ UNCHANGED <<other, vm_function, tracer, binding, in_args, in_kwargs, args,
                 ret_list, invokes, returns, retval>>

InvokeEndCallRaises ==
  /\ pc = "invoking"
  /\ tracer
  /\ invokes' = invokes + 1
  /\ FailMasked("invoke")
  /\ UNCHANGED <<other, vm_function, tracer, binding, in_args, in_kwargs, args,
                 arg_list, ret_list, returns, retval, inv>>

DecodeEndCallRaises ==
  /\ pc = "decoding"
  /\ tracer
  /\ LET r == extract_vm_sequence_to_python(
                inv, reflection_aligned(binding, ret_list), binding.ret_descs) IN
     /\ r.exc # "none"
     /\ inv' = r.inv
  /\ FailMasked("decode")
  /\ UNCHANGED <<other, vm_function, tracer, binding, in_args, in_kwargs, args,
                 arg_list, ret_list, invokes, returns, retval>>

\* The return value of lines 140-146 is computed and then discarded.
ReconcileEndCallRaises ==
  /\ pc = "reconciling"
  /\ tracer
  /\ FailMasked("reconcile")
  /\ UNCHANGED <<other, vm_function, tracer, binding, in_args, in_kwargs, args,
                 arg_list, ret_list, invokes, returns, retval, inv>>

TracerFaultNext ==
  \/ Next
  \/ StartCallRaises
  \/ AddArgsRaises
  \/ AddResultsRaises
  \/ MergeEndCallRaises
  \/ EncodeEndCallRaises
  \/ InvokeEndCallRaises
  \/ DecodeEndCallRaises
  \/ ReconcileEndCallRaises

TracerFaultSpec == Init /\ [][TracerFaultNext]_vars


(***************************************************************************)
(* Two calls of one invoker in flight at once.  The first call is the one  *)
(* of the variables above; the second is the frame `other`.  Both read the *)
(* binding; each has its own locals, the Invocation of line 105 included.  *)
(***************************************************************************)
mainvars ==
  <<pc, vm_function, tracer, binding, in_args, in_kwargs, args, arg_list,
    ret_list, invokes, returns, retval, error, inv, log>>

\* The functions the two calls are made on.
ConcReflections ==
  { NoAbi,
    AbiAR(JL(<<Named("x", JS("i32")), Named("y", NdArray0("f32"))>>),
          JL(<<JS("i32")>>)),
    AbiAR(JL(<<SList(<<JS("i32"), JS("f32")>>)>>),
          JL(<<JS("i32"), JS("f32")>>)),
    AbiAR(JL(<<JS("i32")>>), JL(<<JS("i32"), JN(5)>>)) }

\* The arguments of the first call.
ConcArgs ==
  { <<>>, <<PInt(5)>>, <<PInt(5), PFloat(5)>>, <<PStr("s")>>,
    <<PInt(5), PStr("s")>>, <<PList(<<PInt(1), PFloat(4)>>)>> }
ConcKwargs == { <<>>, <<[key |-> "y", value |-> PFloat(4)]>> }

\* The arguments of the second call and what the VM returns to it: values
\* that occur nowhere in the first call.
OtherArgs ==
  { <<>>, <<PInt(8)>>, <<PInt(8), PFloat(9)>>, <<PInt(8), PObj(TRUE)>>,
    <<PList(<<PInt(6), PFloat(7)>>)>> }
OtherKwargs == { <<>>, <<[key |-> "x", value |-> PInt(6)]>> }
OtherVmResults ==
  { <<VInt(11)>>, <<VInt(11), VFloat(13)>>, <<VList(<<VInt(11), VInt(12)>>)>> }

ConcConstruct ==
  /\ pc = "new"
  /\ \E refl \in ConcReflections, tr \in BOOLEAN :
       /\ vm_function' = refl
       /\ tracer' = tr
       /\ binding' = parse_abi_dict(refl)
  /\ pc' = IF binding'.exc = "none" THEN "idle" ELSE "unusable"
  /\ UNCHANGED <<other, in_args, in_kwargs, args, arg_list, ret_list, invokes,
                 returns, retval, error, inv, log>>

ConcBeginCall ==
  /\ pc = "idle"
  /\ pc' = "merging"
  /\ \E a \in ConcArgs, kw \in ConcKwargs :
       /\ in_args' = a
       /\ in_kwargs' = kw
       /\ args' = a
  /\ arg_list' = NoList
  /\ ret_list' = <<>>
  /\ invokes' = 0
  /\ returns' = <<>>
  /\ retval' = NotReturned
  /\ error' = NoError
  /\ inv' = NewInvocation
  /\ log' = Traced(<<"start_call">>)
  /\ UNCHANGED <<other, vm_function, tracer, binding>>

\* The second call fails in step `step`.
OtherFail(frame, step, exc, cause) ==
  [frame EXCEPT !.pc = "failed", !.step = step,
                !.error = [exc |-> exc, cause |-> cause]]

\* Lines 97-106 of the second call.
OtherBegin ==
  /\ pc \notin {"new", "unusable"}
  /\ other.pc = "idle"
  /\ \E a \in OtherArgs, kw \in OtherKwargs :
       other' = [NoCall EXCEPT !.pc = "merging", !.in_args = a,
                               !.in_kwargs = kw, !.args = a]
  /\ UNCHANGED mainvars

\* Lines 108-122.
OtherMerge ==
  /\ other.pc = "merging"
  /\ LET m == merge_kwargs(binding, other.args, other.in_kwargs)
         f == [other EXCEPT !.args = m.args]
     IN  other' = IF m.exc # "none" THEN OtherFail(f, "merge", m.exc, "none")
                  ELSE [f EXCEPT !.pc = "encoding", !.step = "merge"]
  /\ UNCHANGED mainvars

\* OtherEncode with the Invocation kept in one place for all the calls of the
\* invoker, instead of in a local of the call.
OtherEncodeSharedInvocation ==
  /\ other.pc = "encoding"
  /\ LET r == merge_python_sequence_to_vm(inv, <<>>, other.args, binding.arg_descs)
         f == [other EXCEPT !.arg_list = [created |-> TRUE, items |-> r.vm],
                            !.inv = r.inv]
     IN  /\ other' = IF r.exc # "none" THEN OtherFail(f, "encode", r.exc, r.cause)
                     ELSE [f EXCEPT !.pc = "invoking", !.step = "encode"]
         /\ inv' = r.inv
  /\ UNCHANGED <<pc, vm_function, tracer, binding, in_args, in_kwargs, args,
                 arg_list, ret_list, invokes, returns, retval, error, log>>

\* Lines 124-128.
OtherEncode ==
  /\ other.pc = "encoding"
  /\ LET r == merge_python_sequence_to_vm(other.inv, <<>>, other.args,
                                          binding.arg_descs)
         f == [other EXCEPT !.arg_list = [created |-> TRUE, items |-> r.vm],
                            !.inv = r.inv]
     IN  other' = IF r.exc # "none" THEN OtherFail(f, "encode", r.exc, r.cause)
                  ELSE [f EXCEPT !.pc = "invoking", !.step = "encode"]
  /\ UNCHANGED mainvars

\* Lines 129-131.
OtherInvoke ==
  /\ other.pc = "invoking"
  /\ \E results \in OtherVmResults :
       other' = [other EXCEPT !.ret_list = results, !.pc = "decoding",
                              !.step = "invoke"]
  /\ UNCHANGED mainvars

OtherInvokeRaises ==
  /\ other.pc = "invoking"
  /\ other' = OtherFail(other, "invoke", "VmError", "none")
  /\ UNCHANGED mainvars

\* Lines 133-139.
OtherDecode ==
  /\ other.pc = "decoding"
  /\ LET r == extract_vm_sequence_to_python(
                other.inv, reflection_aligned(binding, other.ret_list),
                binding.ret_descs)
         f == [other EXCEPT !.inv = r.inv]
     IN  other' = IF r.exc # "none" THEN OtherFail(f, "decode", r.exc, r.cause)
                  ELSE [f EXCEPT !.returns = r.vm, !.pc = "reconciling",
                                 !.step = "decode"]
  /\ UNCHANGED mainvars

\* Lines 140-146.
OtherReconcile ==
  /\ other.pc = "reconciling"
  /\ other' = [other EXCEPT
                 !.retval = [returned |-> TRUE, value |-> return_arity(other.returns)],
                 !.pc = "done", !.step = "reconcile"]
  /\ UNCHANGED mainvars

\* The second call is over and its frame is dropped.
OtherEnd ==
  /\ other.pc \in {"done", "failed"}
  /\ other' = NoCall
  /\ UNCHANGED mainvars

ConcNext ==
  \/ ConcConstruct
  \/ ConcBeginCall
  \/ Merge
  \/ Encode
  \/ Invoke
  \/ InvokeRaises
  \/ Decode
  \/ Reconcile
  \/ EndCall
  \/ OtherBegin
  \/ OtherMerge
  \/ OtherEncode
  \/ OtherInvoke
  \/ OtherInvokeRaises
  \/ OtherDecode
  \/ OtherReconcile
  \/ OtherEnd

ConcSpec == Init /\ [][ConcNext]_vars

(***************************************************************************)
(* Calls of one-argument functions over a wider range of descriptors and   *)
(* values, the result being described as the argument is.                  *)
(***************************************************************************)
SDict(keys, ds) ==
  JL(<<JS("sdict")>> \o [i \in 1..Len(keys) |-> JL(<<JS(keys[i]), ds[i]>>)])
PyList(d) == JL(<<JS("py_homogeneous_list"), d>>)

MarshalDescs ==
  { JS("i32"), JS("f32"),
    NdArray0("f32"), NdArray0("i32"), NdArray0("i1"), NdArray0("bf16"),
    JL(<<JS("ndarray"), JS("f32"), JN(1), JN(2)>>),
    SList(<<JS("i32"), JS("f32")>>),
    STuple(<<JS("i32"), JS("f32")>>),
    SList(<<SList(<<JS("i32")>>), JS("f32")>>),
    SList(<<NdArray0("f32")>>),
    SList(<<>>),
    SDict(<<"a", "b">>, <<JS("i32"), JS("f32")>>),
    SDict(<<"a">>, <<STuple(<<JS("i32"), JS("i32")>>)>>),
    PyList(JS("i32")) }

\* Result descriptors holding a tag no converter is mapped to, at the top
\* level and inside composites.
UnmappedResultDescs ==
  { JS("i1"),
    Named("x", JS("i32")),
    SList(<<JS("i1")>>),
    SList(<<SList(<<JS("i1")>>), JS("f32")>>),
    SDict(<<"a">>, <<JS("i1")>>),
    PyList(JS("i1")) }

\* One argument and one result of the same description, and functions of no
\* result and of two.
MarshalReflections ==
  {NoAbi} \cup {AbiAR(JL(<<d>>), JL(<<d>>)) : d \in MarshalDescs}
    \cup { AbiAR(JL(<<JS("i32")>>), JL(<<>>)),
           AbiAR(JL(<<JS("f32")>>), JL(<<JS("i32"), JS("f32")>>)),
           AbiAR(JL(<<JS("i32")>>),
                 JL(<<SList(<<JS("i32")>>), SList(<<JS("i32"), JS("i32")>>)>>)) }
    \cup {AbiAR(JL(<<JS("i32")>>), JL(<<d>>)) : d \in UnmappedResultDescs}
    \cup {AbiAR(JL(<<d>>), JL(<<JS("i32")>>)) : d \in {JS("i1"), JL(<<JS("opaque")>>)}}

MarshalValues ==
  { PInt(5), PBool(TRUE), PFloat(5), PStr("s"), PStr("5"),
    PArr("int64", <<>>, <<10>>, PNone),
    PArr("float64", <<>>, <<5>>, PNone),
    PArr("float32", <<2>>, <<2, 4>>, PNone),
    PList(<<PInt(1), PFloat(4)>>),
    PTuple(<<PInt(1), PFloat(4)>>),
    PTuple(<<PInt(1), PInt(2)>>),
    PList(<<PInt(1)>>),
    PList(<<>>),
    PList(<<PFloat(4)>>),
    PList(<<PList(<<PInt(1)>>), PFloat(4)>>),
    PList(<<PInt(1), PStr("s")>>),
    PDict(<<"a", "b">>, <<PInt(1), PFloat(4)>>),
    PDict(<<"b", "a">>, <<PFloat(4), PInt(1)>>),
    PDict(<<"c", "b", "a">>, <<PInt(9), PFloat(4), PInt(1)>>),
    PDict(<<"a">>, <<PInt(1)>>),
    PDict(<<"a">>, <<PTuple(<<PInt(1), PInt(2)>>)>>) }

\* What the VM may return besides its argument.
MarshalVmResults ==
  { <<VInt(3)>>,
    <<VInt(3), VFloat(5)>>,
    <<VInt(3), VFloat(5), VInt(9)>>,
    <<VList(<<VInt(3)>>), VFloat(5)>>,
    <<VList(<<VInt(3), VInt(4)>>), VFloat(5)>>,
    <<VList(<<VInt(3), VInt(4)>>)>>,
    <<VList(<<VInt(3)>>)>>,
    <<VList(<<VInt(3), VFloat(5)>>)>> }

\* The result list of a VM function that returns its argument: the slots of
\* the argument list, those of its composite when the result is inlined.
Echo ==
  IF binding.has_inlined_results /\ Len(arg_list.items) = 1
     /\ arg_list.items[1].vk = "list"
  THEN arg_list.items[1].items
  ELSE arg_list.items

MarshalConstruct ==
  /\ pc = "new"
  /\ \E refl \in MarshalReflections :
       /\ vm_function' = refl
       /\ binding' = parse_abi_dict(refl)
  /\ tracer' = FALSE
  /\ pc' = IF binding'.exc = "none" THEN "idle" ELSE "unusable"
  /\ UNCHANGED <<other, in_args, in_kwargs, args, arg_list, ret_list, invokes,
                 returns, retval, error, inv, log>>

MarshalBeginCall ==
  /\ pc = "idle"
  /\ pc' = "merging"
  /\ \E v \in MarshalValues :
       /\ in_args' = <<v>>
       /\ args' = <<v>>
  /\ in_kwargs' = <<>>
  /\ arg_list' = NoList
  /\ ret_list' = <<>>
  /\ invokes' = 0
  /\ returns' = <<>>
  /\ retval' = NotReturned
  /\ error' = NoError
  /\ inv' = NewInvocation
  /\ log' = Traced(<<"start_call">>)
  /\ UNCHANGED <<other, vm_function, tracer, binding>>

MarshalInvoke ==
  /\ pc = "invoking"
  /\ invokes' = invokes + 1
  /\ \E results \in MarshalVmResults \cup {Echo} : ret_list' = results
  /\ pc' = "decoding"
  /\ log' = log \o <<"invoke">> \o Traced(<<"add_results">>)
  /\ UNCHANGED <<other, vm_function, tracer, binding, in_args, in_kwargs, args,
                 arg_list, returns, retval, error, inv>>

MarshalNext ==
  \/ MarshalConstruct
  \/ MarshalBeginCall
  \/ Merge
  \/ Encode
  \/ MarshalInvoke
  \/ InvokeRaises
  \/ Decode
  \/ Reconcile
  \/ EndCall

MarshalSpec == Init /\ [][MarshalNext]_vars

\* __call__ is one sequential procedure run by the calling thread: a step
\* that is reached is executed, and the VM's invoke returns or raises.
MarshalLiveSpec ==
  /\ MarshalSpec
  /\ WF_vars(Merge)
  /\ WF_vars(Encode)
  /\ WF_vars(MarshalInvoke \/ InvokeRaises)
  /\ WF_vars(Decode)
  /\ WF_vars(Reconcile)

\* The largest member of a finite set of naturals, 0 for the empty set.
MaxOf(S) == IF S = {} THEN 0 ELSE CHOOSE m \in S : \A n \in S : n <= m

\* How deep the calls of _merge_python_sequence_to_vm nest below the one of
\* line 126 while xs is encoded against ds: _list_or_tuple_to_vm (line 242)
\* and _dict_to_vm (line 263) call it again, once their checks have passed.
RECURSIVE MergeDepth(_, _)
MergeDepth(xs, ds) ==
  MaxOf({ LET x == xs[i]
              d == ds[i]
          IN  IF d = JNull \/ d.k # "list" \/ Len(d.e) = 0 THEN 0
              ELSE IF /\ d.e[1] \in {JS("slist"), JS("stuple")}
                      /\ x.t \in {"list", "tuple"}
                      /\ Len(x.items) = Len(d.e) - 1
              THEN 1 + MergeDepth(x.items, Slice(d, 1))
              ELSE IF x.t = "dict" /\ d.e[1] = JS("sdict")
              THEN LET picked == dict_items(x, Slice(d, 1), 1, <<>>, <<>>)
                   IN  IF picked.exc # "none" THEN 0
                       ELSE 1 + MergeDepth(picked.py_values, picked.value_descs)
              ELSE 0
          : i \in 1..Min(Len(xs), Len(ds)) })

\* How deep the calls of _extract_vm_sequence_to_python nest below the one of
\* line 138 while vm_list is decoded against ds: _vm_to_sdict (line 360),
\* _vm_to_slist (369) and _vm_to_pylist (394) call it again on a list slot.
RECURSIVE ExtractDepth(_, _)
ExtractDepth(vm_list, ds) ==
  MaxOf({ LET slot == vm_list[i]
              d == ds[i]
          IN  IF d = JNull \/ d.k # "list" \/ Len(d.e) = 0 \/ slot.vk # "list" THEN 0
              ELSE IF d.e[1] \in {JS("slist"), JS("stuple")}
              THEN 1 + ExtractDepth(slot.items, Slice(d, 1))
              ELSE IF d.e[1] = JS("sdict")
              THEN LET entries == sdict_entries(Slice(d, 1), 1, <<>>, <<>>)
                   IN  IF entries.exc # "none" THEN 0
                       ELSE 1 + ExtractDepth(slot.items, entries.item_descs)
              ELSE IF d.e[1] = JS("py_homogeneous_list")
              THEN 1 + ExtractDepth(slot.items,
                                    Repeat(Slice(d, 1), Len(slot.items)))
              ELSE 0
          : i \in 1..Min(Len(vm_list), Len(ds)) })

(***************************************************************************)
(* Properties.                                                             *)
(***************************************************************************)
StepNames == {"merge", "encode", "invoke", "decode", "reconcile"}
IsStep(e) == e \in StepNames
\* The steps the current call has run, in order, and the last of them.
Steps == SelectSeq(log, IsStep)
LastStep == IF Len(Steps) = 0 THEN "none" ELSE Steps[Len(Steps)]
\* A call is in progress or has just ended.
InCall == pc \in {"merging", "encoding", "invoking", "decoding", "reconciling",
                  "done", "failed"}
\* The binding was constructed from reflection metadata.
Reflected == pc \notin {"new", "unusable"} /\ vm_function.present

\* C1: with non-null argument descriptors, a merged positional sequence whose
\* length differs from the number of descriptors makes the call fail with
\* ArgumentError in the encoding step, and the VM is never invoked.  (Stated
\* for arguments whose repr returns.)
C1_ArityInvariant ==
  ( /\ Reflected
    /\ arg_list.created
    /\ Len(args) # Len(binding.arg_descs.e)
    /\ \A i \in 1..Len(args) : repr_ok(args[i]) )
  => ( /\ pc = "failed"
       /\ LastStep = "encode"
       /\ error.exc = "ArgumentError"
       /\ invokes = 0 )

\* The keywords of the call whose name is not in the named-argument index.
UnknownKeywords ==
  { i \in 1..Len(in_kwargs) :
      ~\E n \in 1..Len(binding.named_arg_indices) :
          binding.named_arg_indices[n].name = JS(in_kwargs[i].key) }

\* C2: a call that passes a keyword absent from the named-argument index
\* fails with ArgumentError in the merge step: no VM argument list is built,
\* nothing is encoded, the VM is not invoked and nothing is returned.
C2_UnknownKeywordRejected ==
  (InCall /\ pc # "merging" /\ UnknownKeywords # {})
  => ( /\ pc = "failed"
       /\ error = [exc |-> "ArgumentError", cause |-> "none"]
       /\ LastStep = "merge"
       /\ ~arg_list.created
       /\ invokes = 0
       /\ ~retval.returned )

\* A rejected call whose unknown keyword follows a valid keyword and comes
\* with a positional argument.
C2_Witness ==
  /\ pc = "failed"
  /\ Len(in_kwargs) = 2
  /\ UnknownKeywords = {2}
  /\ Len(in_args) >= 1

\* The argument descriptors as the metadata lists them, before the "named"
\* records are unwrapped.
RawArgs == Subscript(vm_function.value, "a").val.e
\* Every argument is declared by a ["named", name, type] record, with
\* distinct names.
AllNamed ==
  /\ Reflected
  /\ \A i \in 1..Len(RawArgs) :
       /\ RawArgs[i].k = "list"
       /\ Len(RawArgs[i].e) = 3
       /\ RawArgs[i].e[1] = JS("named")
       /\ RawArgs[i].e[2].k = "str"
  /\ \A i, j \in 1..Len(RawArgs) : i # j => RawArgs[i].e[2] # RawArgs[j].e[2]
\* The call gives leading positionals and one keyword for each remaining name.
C3_Case ==
  /\ AllNamed
  /\ Len(in_args) <= Len(RawArgs)
  /\ Len(in_kwargs) = Len(RawArgs) - Len(in_args)
  /\ {in_kwargs[i].key : i \in 1..Len(in_kwargs)}
       = {RawArgs[j].e[2].s : j \in (Len(in_args) + 1)..Len(RawArgs)}
\* The same values, all passed positionally.
C3_AllPositional ==
  [ j \in 1..Len(RawArgs) |->
      IF j <= Len(in_args) THEN in_args[j]
      ELSE in_kwargs[CHOOSE i \in 1..Len(in_kwargs) :
                       in_kwargs[i].key = RawArgs[j].e[2].s].value ]

\* C3: for a callable whose arguments are all named, leading positionals plus
\* keywords for the remaining names, in any order, merge to the sequence of
\* the all-positional call, and encode as it does.
C3_NamedArgumentEquivalence ==
  (InCall /\ pc # "merging" /\ C3_Case)
  => ( /\ args = C3_AllPositional
       /\ ~(pc = "failed" /\ LastStep = "merge")
       /\ arg_list.created =>
            LET r == merge_python_sequence_to_vm(NewInvocation, <<>>,
                                                 C3_AllPositional, binding.arg_descs)
            IN  /\ arg_list.items = r.vm
                /\ (pc = "failed" /\ LastStep = "encode") <=> (r.exc # "none") )

\* Both arguments passed by keyword, in the reverse of the declared order,
\* and encoded.
C3_Witness ==
  /\ pc = "invoking"
  /\ C3_Case
  /\ Len(in_kwargs) = 2
  /\ in_kwargs[1].key = "y"

\* The result descriptors are [["slist", "i32", "i32"]] and the VM has left
\* two integer slots.
C4_Case ==
  /\ Reflected
  /\ binding.ret_descs = JL(<<SList(<<JS("i32"), JS("i32")>>)>>)
  /\ Len(ret_list) = 2
  /\ \A i \in 1..2 : ret_list[i].vk = "int"

\* C4 as claimed: the call returns a 2-tuple of the two integers.
C4_ReturnsTuple ==
  (pc = "done" /\ C4_Case)
  => ( /\ retval.value.t = "tuple"
       /\ retval.value.items = <<PInt(ret_list[1].v), PInt(ret_list[2].v)>> )

\* C4, amended: the inlined results are un-inlined and decoded, and the call
\* returns the Python list of the two integers (a list of length 2: not a
\* tuple, and not a 1-element wrapper around a nested sequence).
C4_ReturnsList ==
  C4_Case
  => ( /\ pc # "failed"
       /\ pc = "done" =>
            retval = [returned |-> TRUE,
                      value |-> PList(<<PInt(ret_list[1].v), PInt(ret_list[2].v)>>)] )

C4_Witness == pc = "done" /\ C4_Case

\* C5: a call that has decoded its results returns None for no value, the
\* value itself for one, and the tuple of all the values, in order, for two
\* or more.
C5_ReturnArity ==
  pc = "done"
  => ( /\ retval.returned
       /\ Len(returns) = 0 => retval.value = PNone
       /\ Len(returns) = 1 => retval.value = returns[1]
       /\ Len(returns) >= 2 =>
            (retval.value.t = "tuple" /\ retval.value.items = returns) )

C5_Witness == pc = "done" /\ Len(returns) >= 2 /\ retval.value.t = "tuple"

\* Values a dynamic-mode call is said to take: a registered type other than
\* str, arrays being of a dtype with a HAL element type.
Encodable(x) ==
  /\ x.t \in PYTHON_TO_VM_CONVERTERS \ {"str"}
  /\ x.t = "ndarray" => x.dtype \in HalDtypes

\* C6: without reflection metadata, positional values of registered types
\* other than str are encoded without failure, one top-level slot each.
C6_DynamicEncoding ==
  ( /\ pc \notin {"new", "unusable"}
    /\ ~vm_function.present
    /\ arg_list.created
    /\ \A i \in 1..Len(args) : Encodable(args[i]) )
  => ( /\ ~(pc = "failed" /\ LastStep = "encode")
       /\ Len(arg_list.items) = Len(args) )

\* C7: without an "iree.abi" entry the binding is usable and keeps null
\* descriptors, an empty named-argument index, max named index -1 and
\* has_inlined_results false; every call's decode yields get_variant of each
\* slot the VM returned, and the decode step never fails.
C7_DynamicDecoding ==
  (pc # "new" /\ ~vm_function.present)
  => ( /\ pc # "unusable"
       /\ binding.arg_descs = JNull
       /\ binding.ret_descs = JNull
       /\ binding.named_arg_indices = <<>>
       /\ binding.max_named_arg_index = -1
       /\ binding.has_inlined_results = FALSE
       /\ pc \in {"reconciling", "done"} =>
            /\ Len(returns) = Len(ret_list)
            /\ \A i \in 1..Len(ret_list) : returns[i] = get_variant(ret_list[i])
       /\ ~(pc = "failed" /\ LastStep = "decode") )

C7_Witness == ~vm_function.present /\ pc = "done" /\ Len(returns) = 3

\* Metadata that is present and structurally invalid: not JSON, not an
\* object, without "a" or "r", or with an "a" or "r" that is not a list.
StructurallyInvalid(refl) ==
  /\ refl.present
  /\ \/ ~refl.syntax_ok
     \/ refl.value.k # "obj"
     \/ Subscript(refl.value, "a").exc # "none"
     \/ Subscript(refl.value, "r").exc # "none"
     \/ Subscript(refl.value, "a").val.k # "list"
     \/ Subscript(refl.value, "r").val.k # "list"

\* C8: constructing a binding from structurally invalid metadata fails with
\* RuntimeError, and with nothing else.
C8_MetadataErrorTotality ==
  (pc # "new" /\ StructurallyInvalid(vm_function))
  => (pc = "unusable" /\ binding.exc = "RuntimeError")

\* C9: what leaves the encoding step is an ArgumentError and what leaves the
\* decoding step is a ReturnError.
C9_TaxonomyClosure ==
  pc = "failed"
  => ( /\ LastStep = "encode" => error.exc = "ArgumentError"
       /\ LastStep = "decode" => error.exc = "ReturnError" )

\* The order of the steps: the steps run are a prefix of merge, encode,
\* invoke, decode, reconcile; the VM is invoked at most once; a failed call
\* stops at the failing step and returns nothing; only a call that ran every
\* step returns.
AllSteps == <<"merge", "encode", "invoke", "decode", "reconcile">>
StepOrder ==
  /\ Len(Steps) <= Len(AllSteps)
  /\ Steps = SubSeq(AllSteps, 1, Len(Steps))
  /\ invokes <= 1
  /\ invokes = 1 <=> (\E i \in 1..Len(Steps) : Steps[i] = "invoke")
  /\ pc = "failed" => (~retval.returned /\ returns = <<>> /\ Len(Steps) >= 1)
  /\ retval.returned <=> (pc = "done" /\ Steps = AllSteps)
  /\ pc = "decoding" <=> (InCall /\ pc # "failed" /\ LastStep = "invoke")

\* C10: the steps run in order, the VM is invoked at most once and only once
\* every argument of the call has been encoded, and a failure ends the call
\* with nothing returned.
C10_StepOrdering ==
  /\ StepOrder
  /\ invokes > 0 => Len(arg_list.items) = Len(args)


TracerEvents == {"start_call", "add_args", "add_results", "end_call"}
\* The log of a successful call with a tracer attached.
TraceOrder ==
  <<"start_call", "merge", "encode", "add_args", "invoke", "add_results",
    "decode", "reconcile", "end_call">>

\* C11: with a tracer attached a successful call logs start_call, the
\* encoding, the capture of the arguments, the invoke, the capture of the
\* results, the decoding and end_call in this order; in every call the
\* argument capture directly follows the encoding, the result capture
\* directly follows the invoke and decoding starts only after it.  Without a
\* tracer no tracer event occurs.
C11_TracerBracketing ==
  /\ ~tracer => \A i \in 1..Len(log) : log[i] \notin TracerEvents
  /\ (tracer /\ pc = "done") => log = TraceOrder
  /\ (tracer /\ InCall) =>
       /\ Len(log) >= 1 /\ log[1] = "start_call"
       /\ \A i \in 1..Len(log) :
            /\ log[i] = "start_call" => i = 1
            /\ log[i] = "add_args" => (i > 1 /\ log[i - 1] = "encode")
            /\ log[i] = "add_results" => (i > 1 /\ log[i - 1] = "invoke")
            /\ log[i] = "decode" => (i > 1 /\ log[i - 1] = "add_results")
            /\ log[i] = "end_call" => (i = Len(log) /\ pc \in {"done", "failed"})
       /\ pc \in {"invoking", "decoding", "reconciling", "done"} =>
            \E i \in 1..Len(log) : log[i] = "add_args"
       /\ pc \in {"decoding", "reconciling", "done"} =>
            \E i \in 1..Len(log) : log[i] = "add_results"

C11_Witness == tracer /\ pc = "done" /\ Len(returns) >= 1 /\ Len(args) >= 1


\* C12: a failure of a tracer operation never replaces the outcome of the
\* call: no call ends with the tracer's exception, and a call whose merge,
\* encode, invoke, decode and reconciliation all ran returns its value.
C12_TracerIsolation ==
  /\ pc = "failed" => error # TracerError
  /\ (InCall /\ Steps = AllSteps) =>
       (pc = "done" /\ retval = [returned |-> TRUE, value |-> return_arity(returns)])


\* The Python values an argument holds, itself included.
RECURSIVE Elems(_)
Elems(x) ==
  {x} \cup
  CASE x.t \in {"list", "tuple"} -> UNION {Elems(x.items[i]) : i \in 1..Len(x.items)}
    [] x.t = "dict" -> UNION {Elems(x.vals[i]) : i \in 1..Len(x.vals)}
    [] OTHER -> {}
\* The VM lists a VM list holds, itself included.
RECURSIVE VmLists(_)
VmLists(l) ==
  {l} \cup UNION {IF l[i].vk = "list" THEN VmLists(l[i].items) ELSE {} : i \in 1..Len(l)}

\* What a call alone makes of arguments a and of results rl.
EncSolo(a) == merge_python_sequence_to_vm(NewInvocation, <<>>, a, binding.arg_descs)
DecSolo(a, rl) ==
  extract_vm_sequence_to_python(EncSolo(a).inv, reflection_aligned(binding, rl),
                                binding.ret_descs)
\* The error context and the error of a call are those of the call alone, and
\* the context refers to values of the call.
Isolated(cpc, step, a, rl, cinv, cerr) ==
  /\ step \in {"none", "merge"} => cinv = NewInvocation
  /\ step \in {"encode", "invoke"} => cinv = EncSolo(a).inv
  /\ (step = "encode" /\ cpc = "failed") =>
       cerr = [exc |-> EncSolo(a).exc, cause |-> EncSolo(a).cause]
  /\ step \in {"decode", "reconcile"} => cinv = DecSolo(a, rl).inv
  /\ (step = "decode" /\ cpc = "failed") =>
       cerr = [exc |-> DecSolo(a, rl).exc, cause |-> DecSolo(a, rl).cause]
  /\ cinv.current_arg \in {PNone} \cup UNION {Elems(a[i]) : i \in 1..Len(a)}
  /\ cinv.current_return_list \in
       {PNone} \cup {PVmList(l) : l \in VmLists(reflection_aligned(binding, rl))}

\* C13: whatever the interleaving of two calls of one invoker, the error
\* context and the error of each call are what the call produces alone, and
\* the context's current argument and current result list are values of that
\* call, never of the other.
C13_CallIsolation ==
  pc \notin {"new", "unusable"}
  => ( /\ Isolated(pc, LastStep, args, ret_list, inv, error)
       /\ Isolated(other.pc, other.step, other.args, other.ret_list,
                   other.inv, other.error) )

\* The first call is past its encoding, with a context, while the second
\* has failed in its own encoding.
C13_Witness ==
  /\ pc = "decoding"
  /\ inv.current_arg # PNone
  /\ other.pc = "failed"
  /\ other.step = "encode"
  /\ other.inv.current_arg = PObj(TRUE)


\* C14: once the invoker is constructed no step of any call changes its
\* reflection, descriptors, named-argument index, max named index or
\* has_inlined_results, and no step of a call changes the arguments the
\* caller passed.
C14_BindingImmutable ==
  [][ /\ pc # "new" => (binding' = binding /\ vm_function' = vm_function)
      /\ pc \in {"merging", "encoding", "invoking", "decoding", "reconciling"} =>
           (in_args' = in_args /\ in_kwargs' = in_kwargs) ]_vars

\* A completed call whose keywords were merged into a sequence other than
\* the positionals passed, on a binding that still is what was parsed.
C14_Witness ==
  /\ pc = "done"
  /\ Len(in_kwargs) = 2
  /\ args # in_args
  /\ binding = parse_abi_dict(vm_function)


\* The call has one scalar argument and its encoding has run.
ScalarEncoded ==
  /\ Reflected
  /\ arg_list.created
  /\ Len(args) = 1
  /\ IsScalar(args[1])
  /\ Len(binding.arg_descs.e) = 1
\* The descriptor is ["ndarray", dt, 0] with dt a key of ABI_TYPE_TO_DTYPE.
Rank0Recognized(d) ==
  /\ d.k = "list"
  /\ Len(d.e) = 3
  /\ d.e[1] = JS("ndarray")
  /\ d.e[2].k = "str" /\ d.e[2].s \in AbiDtypeTags
  /\ d.e[3] = JN(0)
\* The rank-0 array numpy makes of a scalar.
ExplicitRank0(x) == PArr(ScalarDtype(x), <<>>, <<Halves(x)>>, PNone)

\* C15: a bool, int or float argument against a rank-0 ndarray descriptor of
\* a recognized element type is encoded as exactly one buffer-view slot, of
\* the descriptor's element type and holding the value cast to it: the slot
\* that encoding the explicit rank-0 array of that value yields.  Against a
\* scalar descriptor it is encoded as one plain int or float slot.
C15_ScalarPromotion ==
  ScalarEncoded =>
    LET d == binding.arg_descs.e[1]
        x == args[1]
    IN  /\ Rank0Recognized(d) =>
             LET dtype == ABI_TYPE_TO_DTYPE(d.e[2].s) IN
             /\ ~(pc = "failed" /\ LastStep = "encode")
             /\ arg_list.items =
                  <<VBuf(DTYPE_TO_HAL_ELEMENT_TYPE(dtype), <<>>,
                         <<CastElem(Halves(x), dtype)>>)>>
             /\ arg_list.items =
                  merge_python_sequence_to_vm(NewInvocation, <<>>,
                                              <<ExplicitRank0(x)>>, binding.arg_descs).vm
        /\ d.k = "str" =>
             /\ ~(pc = "failed" /\ LastStep = "encode")
             /\ arg_list.items =
                  <<IF x.t = "float" THEN VFloat(x.h)
                    ELSE VInt(IF x.t = "bool" THEN (IF x.b THEN 1 ELSE 0) ELSE x.v)>>

\* The float 2.5 encoded against ["ndarray", "i32", 0].
C15_Witness ==
  /\ ScalarEncoded
  /\ pc = "invoking"
  /\ args[1] = PFloat(5)
  /\ binding.arg_descs.e[1] = NdArray0("i32")
  /\ arg_list.items = <<VBuf("SINT_32", <<>>, <<4>>)>>


\* A value that conforms to a descriptor: an int (or bool) for an integer
\* tag, a float for a float tag, a list or tuple of conforming items of the
\* descriptor's length for slist and stuple, a dict holding a conforming
\* value under every key of the descriptor for sdict.
RECURSIVE Conforms(_, _)
Conforms(v, d) ==
  CASE d.k = "str" ->
         \/ d.s \in IntTags /\ v.t \in {"int", "bool"}
         \/ d.s \in FloatTags /\ v.t = "float"
    [] d.k = "list" /\ Len(d.e) >= 1 /\ d.e[1] \in {JS("slist"), JS("stuple")} ->
         /\ v.t \in {"list", "tuple"}
         /\ Len(v.items) = Len(d.e) - 1
         /\ \A i \in 1..Len(v.items) : Conforms(v.items[i], d.e[i + 1])
    [] d.k = "list" /\ Len(d.e) >= 1 /\ d.e[1] = JS("sdict") ->
         /\ v.t = "dict"
         /\ \A i \in 2..Len(d.e) :
              \E n \in 1..Len(v.keys) :
                v.keys[n] = d.e[i].e[1].s /\ Conforms(v.vals[n], d.e[i].e[2])
    [] OTHER -> FALSE

\* The call has one argument, conforming to a composite descriptor, and its
\* encoding has run.
CompositeEncoded ==
  /\ Reflected
  /\ arg_list.created
  /\ Len(args) = 1
  /\ Len(binding.arg_descs.e) = 1
  /\ binding.arg_descs.e[1].k = "list"
  /\ Conforms(args[1], binding.arg_descs.e[1])

\* C16: the container C that encoding a conforming value against a slist,
\* stuple or sdict descriptor D yields decodes with D without failure, and
\* the decoded value encodes with D to a container equal to C; the results a
\* call decodes from C re-encode to C as well.
C16_CompositeRoundTrip ==
  CompositeEncoded =>
    /\ ~(pc = "failed" /\ LastStep = "encode")
    /\ LET dec == extract_vm_sequence_to_python(NewInvocation, arg_list.items,
                                                binding.arg_descs)
           re == merge_python_sequence_to_vm(NewInvocation, <<>>, dec.vm,
                                             binding.arg_descs)
       IN  dec.exc = "none" /\ re.exc = "none" /\ re.vm = arg_list.items
    /\ (ret_list = Echo /\ LastStep \in {"decode", "reconcile"}) =>
         /\ pc # "failed"
         /\ merge_python_sequence_to_vm(NewInvocation, <<>>, returns,
                                        binding.arg_descs).vm = arg_list.items

\* A dict whose keys come in another order than the descriptor's, with a key
\* the descriptor does not name, returned by the VM and decoded.
C16_Witness ==
  /\ CompositeEncoded
  /\ pc = "done"
  /\ ret_list = Echo
  /\ args[1] = PDict(<<"c", "b", "a">>, <<PInt(9), PFloat(4), PInt(1)>>)
  /\ returns = <<PDict(<<"a", "b">>, <<PInt(1), PFloat(4)>>)>>


\* C17: a str argument, whatever descriptor it is paired with (none in
\* dynamic mode, a scalar tag, ndarray, slist, stuple, sdict), makes the
\* encoding fail with ArgumentError, and no slot is pushed for it.
C17_StrRejected ==
  ( /\ pc \notin {"new", "unusable"}
    /\ arg_list.created
    /\ Len(args) = 1
    /\ args[1].t = "str" )
  => ( /\ pc = "failed"
       /\ LastStep = "encode"
       /\ error.exc = "ArgumentError"
       /\ arg_list.items = <<>> )


\* The call has one argument against one descriptor, a tag or a list headed
\* by its tag, and its encoding has run.
OneEncoded ==
  /\ Reflected
  /\ arg_list.created
  /\ Len(args) = 1
  /\ Len(binding.arg_descs.e) = 1
  /\ LET d == binding.arg_descs.e[1] IN
       d.k = "str" \/ (d.k = "list" /\ Len(d.e) >= 1 /\ d.e[1].k = "str")
ArgDesc == binding.arg_descs.e[1]
ArgTag == IF ArgDesc.k = "str" THEN ArgDesc.s ELSE ArgDesc.e[1].s
\* The encoding failed with ArgumentError and pushed nothing.
Rejected ==
  /\ pc = "failed"
  /\ LastStep = "encode"
  /\ error.exc = "ArgumentError"
  /\ arg_list.items = <<>>
EncodeFailed == pc = "failed" /\ LastStep = "encode"
\* The error context while the argument is being converted.
ArgContext == [NewInvocation EXCEPT !.current_arg = args[1], !.current_desc = ArgDesc]

\* C18 as claimed: a list or tuple against any tag other than slist and
\* stuple, ndarray included, or of another length than the descriptor's, is
\* rejected with ArgumentError.
C18_ListRejectedUnlessSList ==
  (OneEncoded /\ args[1].t \in {"list", "tuple"})
  => ( (ArgTag \notin {"slist", "stuple"} \/ Len(args[1].items) # Len(ArgDesc.e) - 1)
       => Rejected )

\* C18, amended: a list or tuple against slist or stuple of its length is
\* encoded element by element into one nested list pushed as one slot (or
\* fails as the encoding of its elements fails); against slist or stuple of
\* another length, or against sdict, py_homogeneous_list or a scalar tag, it
\* is rejected with ArgumentError; against an ndarray descriptor it is taken
\* as array-like and encoded as the array np.asarray makes of it is: one
\* buffer-view slot, or ArgumentError.
C18_ListValidation ==
  (OneEncoded /\ args[1].t \in {"list", "tuple"})
  => LET x == args[1] IN
     /\ (ArgTag \in {"slist", "stuple"} /\ Len(x.items) = Len(ArgDesc.e) - 1) =>
          LET sub == merge_python_sequence_to_vm(ArgContext, <<>>, x.items,
                                                 JL(Slice(ArgDesc, 1)))
          IN  IF sub.exc = "none"
              THEN ~EncodeFailed /\ arg_list.items = <<VList(sub.vm)>>
              ELSE Rejected
     /\ (ArgTag \in {"slist", "stuple"} /\ Len(x.items) # Len(ArgDesc.e) - 1) =>
          Rejected
     /\ ArgTag \notin {"slist", "stuple", "ndarray"} => Rejected
     /\ ArgTag = "ndarray" =>
          LET r == ndarray_to_vm(ArgContext, <<>>, np_asarray(x), ArgDesc)
          IN  IF r.exc = "none"
              THEN /\ ~EncodeFailed
                   /\ arg_list.items = r.vm
                   /\ Len(r.vm) = 1 /\ r.vm[1].vk = "buffer"
              ELSE Rejected

\* A nested list encoded against a nested slist descriptor.
C18_Witness ==
  /\ OneEncoded
  /\ pc = "invoking"
  /\ args[1] = PList(<<PList(<<PInt(1)>>), PFloat(4)>>)
  /\ arg_list.items = <<VList(<<VList(<<VInt(1)>>), VFloat(4)>>)>>


\* The keys an sdict descriptor names, in its order, and their descriptors.
DescKeys == [i \in 1..(Len(ArgDesc.e) - 1) |-> ArgDesc.e[i + 1].e[1].s]
DescKeyDescs == [i \in 1..(Len(ArgDesc.e) - 1) |-> ArgDesc.e[i + 1].e[2]]
HasKey(x, key) == \E n \in 1..Len(x.keys) : x.keys[n] = key
ValueAt(x, key) == x.vals[CHOOSE n \in 1..Len(x.keys) : x.keys[n] = key]

\* C19: a dict argument is accepted only against an sdict descriptor (any
\* other descriptor, or none, rejects it with ArgumentError and pushes
\* nothing); a dict lacking a key of the descriptor is rejected the same way;
\* otherwise an encoding that succeeds pushes one nested list with exactly
\* one slot per descriptor key, in descriptor order, slot i being the
\* encoding of the value at key i, whatever the dict's own order and
\* whatever other keys it holds.
C19_DictEncoding ==
  ( /\ pc \notin {"new", "unusable"}
    /\ arg_list.created
    /\ Len(args) = 1
    /\ args[1].t = "dict" )
  => LET x == args[1] IN
     IF ~OneEncoded \/ ArgTag # "sdict" THEN Rejected
     ELSE IF \E i \in 1..Len(DescKeys) : ~HasKey(x, DescKeys[i]) THEN Rejected
     ELSE \/ Rejected
          \/ /\ ~EncodeFailed
             /\ Len(arg_list.items) = 1
             /\ arg_list.items[1].vk = "list"
             /\ Len(arg_list.items[1].items) = Len(DescKeys)
             /\ \A i \in 1..Len(DescKeys) :
                  <<arg_list.items[1].items[i]>> =
                    merge_python_sequence_to_vm(NewInvocation, <<>>,
                                                <<ValueAt(x, DescKeys[i])>>,
                                                JL(<<DescKeyDescs[i]>>)).vm


\* The decoding step of the call has run.
DecodeRan == pc \in {"reconciling", "done"} \/ (pc = "failed" /\ LastStep = "decode")
ContainerTags == {"slist", "stuple", "sdict"}
IsContainerDesc(d) ==
  d.k = "list" /\ Len(d.e) >= 1 /\ d.e[1].k = "str" /\ d.e[1].s \in ContainerTags
\* The descriptors of the slots of a container, from the container's descriptor.
SubDescs(d) ==
  IF d.e[1].s = "sdict" THEN [i \in 1..(Len(d.e) - 1) |-> d.e[i + 1].e[2]]
  ELSE Slice(d, 1)
\* Where the decoder stands when it enters the top-level list.
TopContext == [list |-> PNone, index |-> 0]

\* The first container, in the order the decoder walks vm_list, whose slot
\* count differs from its number of descriptors, every slot walked before it
\* decoding without failure: found, with the list and index the decoder
\* stands at when it enters that container (those of its parent).  i = 0
\* enters the container, i >= 1 walks slot i.
RECURSIVE FirstMismatch(_, _, _, _)
FirstMismatch(vm_list, descs, ctx, i) ==
  IF i = 0
  THEN IF Len(vm_list) # Len(descs) THEN [found |-> TRUE, ctx |-> ctx]
       ELSE FirstMismatch(vm_list, descs, ctx, 1)
  ELSE IF i > Len(vm_list) THEN [found |-> FALSE, ctx |-> ctx]
  ELSE LET here == [list |-> PVmList(vm_list), index |-> i - 1]
           sub == IF IsContainerDesc(descs[i]) /\ vm_list[i].vk = "list"
                  THEN FirstMismatch(vm_list[i].items, SubDescs(descs[i]), here, 0)
                  ELSE [found |-> FALSE, ctx |-> here]
       IN  IF sub.found THEN sub
           ELSE IF extract_vm_sequence_to_python(NewInvocation, <<vm_list[i]>>,
                                                 JL(<<descs[i]>>)).exc # "none"
           THEN [found |-> FALSE, ctx |-> here]
           ELSE FirstMismatch(vm_list, descs, ctx, i + 1)

\* C20: with result descriptors, when the decoder comes to a container (the
\* top-level result list, or the sub-list of an slist, stuple or sdict at
\* any depth) whose slot count differs from its number of descriptors, the
\* call fails in the decoding step with ReturnError, the decoder has not
\* stepped onto any slot of that container (it still stands where it entered
\* it), no result is kept and no value is returned.
C20_DecoderArityCheck ==
  (Reflected /\ DecodeRan)
  => LET m == FirstMismatch(reflection_aligned(binding, ret_list),
                            binding.ret_descs.e, TopContext, 0)
     IN  m.found =>
           /\ pc = "failed"
           /\ LastStep = "decode"
           /\ error.exc = "ReturnError"
           /\ returns = <<>>
           /\ ~retval.returned
           /\ inv.current_return_list = m.ctx.list
           /\ inv.current_return_index = m.ctx.index

\* Two slots in the inner list of slist(slist(i32), f32): the decoder stops
\* on slot 0 of the outer list.
C20_Witness ==
  /\ Reflected
  /\ pc = "failed"
  /\ LastStep = "decode"
  /\ error.exc = "ReturnError"
  /\ binding.ret_descs = JL(<<SList(<<SList(<<JS("i32")>>), JS("f32")>>)>>)
  /\ ret_list = <<VList(<<VInt(3), VInt(4)>>), VFloat(5)>>
  /\ inv.current_return_list = PVmList(ret_list)
  /\ inv.current_return_index = 0


\* The keywords were merged and the encoding step has run on the result.
EncodeRan == InCall /\ \E i \in 1..Len(Steps) : Steps[i] = "encode"
PlaceholderLeft == \E i \in 1..Len(args) : args[i] = MissingArgument

\* C21: when keyword arguments were given and the merged sequence still holds
\* a placeholder, the call fails with ArgumentError in the encoding step,
\* nothing was encoded and the VM was not invoked.
C21_OmittedNamedDetected ==
  (EncodeRan /\ in_kwargs # <<>> /\ PlaceholderLeft)
  => ( /\ pc = "failed"
       /\ LastStep = "encode"
       /\ error.exc = "ArgumentError"
       /\ arg_list.items = <<>>
       /\ invokes = 0 )


IsNamedDesc(d) == d.k = "list" /\ Len(d.e) >= 1 /\ d.e[1] = JS("named")
\* The metadata names each parameter once, and a named record wraps a type
\* descriptor, not another named record.
NamesWellFormed ==
  /\ \A i \in 1..Len(RawArgs) :
       IsNamedDesc(RawArgs[i]) => ~IsNamedDesc(RawArgs[i].e[3])
  /\ \A i, j \in 1..Len(RawArgs) :
       (i # j /\ IsNamedDesc(RawArgs[i]) /\ IsNamedDesc(RawArgs[j]))
         => RawArgs[i].e[2] # RawArgs[j].e[2]

C23_InlinedDetectionExact ==
  Reflected =>
    LET r == binding.ret_descs.e IN
    /\ binding.has_inlined_results
         <=> ( /\ Len(r) = 1
               /\ r[1].k = "list"
               /\ Len(r[1].e) >= 1
               /\ r[1].e[1] \in {JS("slist"), JS("stuple"), JS("sdict")} )
    /\ Len(r) \in {0, 2} => ~binding.has_inlined_results
    /\ (Len(r) = 1 /\ r[1].k = "str") => ~binding.has_inlined_results
    /\ (Len(r) = 1 /\ r[1].k = "list" /\ Len(r[1].e) >= 1
          /\ r[1].e[1] \in {JS("ndarray"), JS("py_homogeneous_list")})
         => ~binding.has_inlined_results

\* A single sdict result is inlined: the VM's two slots decode to one dict.
C23_Witness ==
  /\ Reflected
  /\ pc = "done"
  /\ binding.has_inlined_results
  /\ binding.ret_descs.e[1].e[1] = JS("sdict")
  /\ ret_list = <<VInt(3), VFloat(5)>>
  /\ retval.value = PDict(<<"a", "b">>, <<PInt(3), PFloat(5)>>)


\* The tags a result converter is mapped to.
MappedTags ==
  {"ndarray", "sdict", "slist", "stuple", "py_homogeneous_list",
   "i8", "i16", "i32", "i64", "f16", "f32", "f64", "bf16"}
\* A descriptor, a tag or a record headed by its tag, of an unmapped tag.
UnmappedTag(d) ==
  \/ d.k = "str" /\ d.s \notin MappedTags
  \/ d.k = "list" /\ Len(d.e) >= 1 /\ d.e[1].k = "str" /\ d.e[1].s \notin MappedTags
NotFound == [found |-> FALSE, list |-> PNone, index |-> 0, desc |-> JNull]

\* The first slot, in the order the decoder walks vm_list, whose descriptor
\* has an unmapped tag, every container entered before it having as many
\* slots as descriptors and every slot walked before it decoding without
\* failure: found, with the list holding the slot, its index and descriptor.
RECURSIVE FirstUnmapped(_, _, _)
FirstUnmapped(vm_list, descs, i) ==
  IF Len(vm_list) # Len(descs) \/ i > Len(vm_list) THEN NotFound
  ELSE IF UnmappedTag(descs[i])
  THEN [found |-> TRUE, list |-> PVmList(vm_list), index |-> i - 1, desc |-> descs[i]]
  ELSE LET d == descs[i]
           sub == IF vm_list[i].vk # "list" THEN NotFound
                  ELSE IF IsContainerDesc(d)
                  THEN FirstUnmapped(vm_list[i].items, SubDescs(d), 1)
                  ELSE IF d.k = "list" /\ d.e[1] = JS("py_homogeneous_list")
                  THEN FirstUnmapped(vm_list[i].items,
                                     Repeat(Slice(d, 1), Len(vm_list[i].items)), 1)
                  ELSE NotFound
       IN  IF sub.found THEN sub
           ELSE IF extract_vm_sequence_to_python(NewInvocation, <<vm_list[i]>>,
                                                 JL(<<d>>)).exc # "none"
           THEN NotFound
           ELSE FirstUnmapped(vm_list, descs, i + 1)

\* C24: when the decoder comes to a slot, at the top level or inside a
\* composite, whose descriptor's tag has no converter (i1 and named among
\* them), the call fails in the decoding step with ReturnError, the error
\* context standing on that slot; no result is kept and no value returned.
C24_UnmappedResultTag ==
  (Reflected /\ DecodeRan)
  => LET u == FirstUnmapped(reflection_aligned(binding, ret_list),
                            binding.ret_descs.e, 1)
     IN  u.found =>
           /\ pc = "failed"
           /\ LastStep = "decode"
           /\ error.exc = "ReturnError"
           /\ returns = <<>>
           /\ ~retval.returned
           /\ inv.current_return_list = u.list
           /\ inv.current_return_index = u.index
           /\ inv.current_desc = u.desc

\* The tag i1 two levels down, in slist(slist(i1), f32).
C24_Witness ==
  /\ Reflected
  /\ pc = "failed"
  /\ LastStep = "decode"
  /\ error.exc = "ReturnError"
  /\ binding.ret_descs = JL(<<SList(<<SList(<<JS("i1")>>), JS("f32")>>)>>)
  /\ ret_list = <<VList(<<VInt(3)>>), VFloat(5)>>
  /\ inv.current_return_list = PVmList(<<VInt(3)>>)
  /\ inv.current_desc = JS("i1")


\* Encoding x alone against d fails; decoding slot alone against d fails.
SoloEncodeFails(x, d) ==
  merge_python_sequence_to_vm(NewInvocation, <<>>, <<x>>, JL(<<d>>)).exc # "none"
SoloDecodeFails(slot, d) ==
  extract_vm_sequence_to_python(NewInvocation, <<slot>>, JL(<<d>>)).exc # "none"
\* The descriptors of a binding, None in dynamic mode standing for one None
\* per element.
DescsFor(descs, n) == IF descs = JNull THEN [i \in 1..n |-> JNull] ELSE descs.e

\* The element whose conversion the encoder started last when it walks xs
\* against ds from element i: it goes on to the next element while one
\* encodes, and into the elements of a list, tuple or dict its converter
\* accepts.
RECURSIVE LastStartedArg(_, _, _)
RECURSIVE InnerArg(_, _)
LastStartedArg(xs, ds, i) ==
  IF i >= Min(Len(xs), Len(ds)) \/ SoloEncodeFails(xs[i], ds[i])
  THEN InnerArg(xs[i], ds[i])
  ELSE LastStartedArg(xs, ds, i + 1)
InnerArg(x, d) ==
  IF d = JNull \/ ~IsContainerDesc(d) THEN [arg |-> x, desc |-> d]
  ELSE IF /\ d.e[1] \in {JS("slist"), JS("stuple")}
          /\ x.t \in {"list", "tuple"}
          /\ Len(x.items) = Len(d.e) - 1
          /\ Len(x.items) > 0
  THEN LastStartedArg(x.items, Slice(d, 1), 1)
  ELSE IF /\ d.e[1] = JS("sdict")
          /\ x.t = "dict"
          /\ Len(d.e) > 1
          /\ \A k \in 2..Len(d.e) : HasKey(x, d.e[k].e[1].s)
  THEN LastStartedArg([k \in 1..(Len(d.e) - 1) |-> ValueAt(x, d.e[k + 1].e[1].s)],
                      SubDescs(d), 1)
  ELSE [arg |-> x, desc |-> d]

\* The slot whose conversion the decoder started last when it walks vm_list
\* against ds from slot i.
RECURSIVE LastStartedRet(_, _, _)
RECURSIVE InnerRet(_, _, _)
LastStartedRet(vm_list, ds, i) ==
  IF i >= Len(vm_list) \/ SoloDecodeFails(vm_list[i], ds[i])
  THEN InnerRet(vm_list, i, ds[i])
  ELSE LastStartedRet(vm_list, ds, i + 1)
InnerRet(vm_list, i, d) ==
  LET slot == vm_list[i]
      here == [list |-> PVmList(vm_list), index |-> i - 1, desc |-> d]
  IN  IF d = JNull \/ slot.vk # "list" THEN here
      ELSE IF Len(slot.items) = 0 THEN here
      ELSE IF IsContainerDesc(d) /\ Len(slot.items) = Len(SubDescs(d))
      THEN LastStartedRet(slot.items, SubDescs(d), 1)
      ELSE IF d.k = "list" /\ Len(d.e) = 2 /\ d.e[1] = JS("py_homogeneous_list")
      THEN LastStartedRet(slot.items, Repeat(Slice(d, 1), Len(slot.items)), 1)
      ELSE here

\* C25: the error context names the element whose conversion was started
\* last.  Once the encoding has run, on success or failure, current_arg and
\* current_desc are the value and descriptor of the innermost argument
\* element started last (current_desc until the decoding takes it over);
\* once the decoding has started a slot, current_return_list,
\* current_return_index and current_desc are those of the innermost result
\* slot started last.  Neither is reset when the conversion fails.
C25_ErrorContextTracking ==
  /\ (EncodeRan /\ Len(args) >= 1 /\ ~PlaceholderLeft
       /\ Len(DescsFor(binding.arg_descs, Len(args))) >= 1)
     => LET s == LastStartedArg(args, DescsFor(binding.arg_descs, Len(args)), 1)
        IN  /\ inv.current_arg = s.arg
            /\ (pc = "invoking" \/ EncodeFailed) => inv.current_desc = s.desc
  /\ DecodeRan
     => LET vm_list == reflection_aligned(binding, ret_list)
            ds == DescsFor(binding.ret_descs, Len(vm_list))
        IN  (Len(vm_list) >= 1 /\ Len(vm_list) = Len(ds))
            => LET r == LastStartedRet(vm_list, ds, 1)
               IN  /\ inv.current_return_list = r.list
                   /\ inv.current_return_index = r.index
                   /\ inv.current_desc = r.desc

\* The str in [1, "s"] against slist(i32, f32) fails: the context names it
\* and the descriptor f32.
C25_Witness ==
  /\ EncodeFailed
  /\ error.exc = "ArgumentError"
  /\ args = <<PList(<<PInt(1), PStr("s")>>)>>
  /\ binding.arg_descs = JL(<<SList(<<JS("i32"), JS("f32")>>)>>)
  /\ inv.current_arg = PStr("s")
  /\ inv.current_desc = JS("f32")


\* C26: in every state of a call, both summaries of the error context
\* return (neither raises), so that an error the encoder or decoder reports
\* about the current element reaches the caller as ArgumentError or
\* ReturnError.
C26_SummaryNeverRaises ==
  InCall =>
    /\ summarize_arg_error(inv).exc = "none"
    /\ summarize_return_error(inv).exc = "none"
    /\ (EncodeFailed /\ Len(args) = 1 /\ args[1].t = "object")
         => error.exc = "ArgumentError"


\* The nesting depth of a descriptor: 0 for a tag, an ndarray record or
\* None, one more than its deepest sub-descriptor for a composite.
RECURSIVE DescDepth(_)
DescDepth(d) ==
  IF d = JNull \/ d.k # "list" \/ Len(d.e) = 0 THEN 0
  ELSE IF d.e[1] \in {JS("slist"), JS("stuple"), JS("py_homogeneous_list")}
  THEN 1 + MaxOf({DescDepth(d.e[i]) : i \in 2..Len(d.e)})
  ELSE IF d.e[1] = JS("sdict")
  THEN 1 + MaxOf({DescDepth(d.e[i].e[2]) : i \in 2..Len(d.e)})
  ELSE 0
DescsDepth(ds) == MaxOf({DescDepth(ds[i]) : i \in 1..Len(ds)})
Finished == pc \in {"done", "failed"}

\* C27: a call that has begun reaches done (a value returned) or failed (an
\* exception raised); while it runs, the calls of the encoder nest no deeper
\* than the argument descriptors do, and those of the decoder no deeper than
\* the result descriptors.
C27_CallTerminates ==
  /\ (pc = "merging") ~> Finished
  /\ [](InCall =>
          /\ MergeDepth(args, DescsFor(binding.arg_descs, Len(args)))
               <= DescsDepth(DescsFor(binding.arg_descs, Len(args)))
          /\ LET vm_list == reflection_aligned(binding, ret_list)
                 ds == DescsFor(binding.ret_descs, Len(vm_list))
             IN  ExtractDepth(vm_list, ds) <= DescsDepth(ds))

\* A call over: a list nested in a list was encoded and decoded, two calls
\* deep.
C27_Witness ==
  /\ pc = "done"
  /\ MergeDepth(args, DescsFor(binding.arg_descs, Len(args))) = 2
  /\ ExtractDepth(reflection_aligned(binding, ret_list),
                  DescsFor(binding.ret_descs, 1)) = 2


\* The calls of end_call, whether it returned or raised.
EndCallEvents == {"end_call", "end_call_raised"}
EndCalls == {i \in 1..Len(log) : log[i] \in EndCallEvents}
TraceStarted == Len(log) >= 1 /\ log[1] = "start_call"

\* C28: in a call whose start_call returned a trace, end_call is called
\* exactly once, when the call is over and as the last event of the call,
\* whether the call returns or fails in the merge (unknown keyword), the
\* encoding, the invoke or the decoding, or a capture of the tracer raises;
\* while the call runs end_call has not been called, and without a started
\* trace it never is.
C28_EndCallPairing ==
  /\ (TraceStarted /\ Finished) =>
       /\ Cardinality(EndCalls) = 1
       /\ log[Len(log)] \in EndCallEvents
  /\ (TraceStarted /\ ~Finished) => EndCalls = {}
  /\ ~TraceStarted => EndCalls = {}

\* A traced call failing in the decoding: the results were captured, then
\* end_call closed the trace.
C28_Witness ==
  /\ tracer
  /\ pc = "failed"
  /\ error.exc = "ReturnError"
  /\ log = <<"start_call", "merge", "encode", "add_args", "invoke",
             "add_results", "decode", "end_call">>


\* The position keyword i of the call is declared at (0-based).
KwIndex(i) ==
  binding.named_arg_indices[
    CHOOSE n \in 1..Len(binding.named_arg_indices) :
      binding.named_arg_indices[n].name = JS(in_kwargs[i].key)].idx
KwPositions == {KwIndex(i) + 1 : i \in 1..Len(in_kwargs)}
\* The call passes known keywords, one of them for a position that a
\* positional argument fills too, and its merge has run.
C29_Case ==
  /\ InCall
  /\ pc # "merging"
  /\ in_kwargs # <<>>
  /\ UnknownKeywords = {}
  /\ \E i \in 1..Len(in_kwargs) : KwIndex(i) < Len(in_args)

\* C29: a keyword for a position a positional argument fills does not fail
\* the merge: the keyword's value stands at that position, the other
\* positional values stay, the merged sequence is as long as the positionals
\* (or max_named_arg_index + 1 if that is more, placeholders filling the
\* rest), and the call goes on to the encoding.
C29_KeywordOverridesPositional ==
  C29_Case =>
    /\ ~(pc = "failed" /\ LastStep = "merge")
    /\ pc = "encoding" \/ EncodeRan
    /\ Len(args) = (IF binding.max_named_arg_index + 1 > Len(in_args)
                    THEN binding.max_named_arg_index + 1 ELSE Len(in_args))
    /\ \A i \in 1..Len(in_kwargs) : args[KwIndex(i) + 1] = in_kwargs[i].value
    /\ \A j \in 1..Len(args) :
         j \notin KwPositions =>
           args[j] = (IF j <= Len(in_args) THEN in_args[j] ELSE MissingArgument)

\* invoker(5, 2.5, x=7) on (x: i32, y: 0-d f32): 7 replaces 5 and the call is
\* encoded.
C29_Witness ==
  /\ pc = "invoking"
  /\ in_args = <<PInt(5), PFloat(5)>>
  /\ in_kwargs = <<[key |-> "x", value |-> PInt(7)]>>
  /\ args = <<PInt(7), PFloat(5)>>
  /\ Len(arg_list.items) = 2


\* C30: a bool, int or float argument against a descriptor that is not an
\* ndarray record (a scalar tag of either kind, slist, stuple, sdict,
\* py_homogeneous_list, an unknown tag) is encoded without failure as one
\* plain slot, an int slot for a bool or an int and a float slot for a
\* float, whatever the descriptor says.
C30_ScalarsNotValidated ==
  (OneEncoded /\ IsScalar(args[1]) /\ ArgTag # "ndarray")
  => /\ ~EncodeFailed
     /\ arg_list.items =
          << CASE args[1].t = "int" -> VInt(args[1].v)
               [] args[1].t = "bool" -> VInt(IF args[1].b THEN 1 ELSE 0)
               [] args[1].t = "float" -> VFloat(args[1].h) >>

\* True against an sdict descriptor goes to the VM as the int 1.
C30_Witness ==
  /\ OneEncoded
  /\ pc = "invoking"
  /\ args = <<PBool(TRUE)>>
  /\ ArgTag = "sdict"
  /\ arg_list.items = <<VInt(1)>>

=============================================================================
